---- MODULE Spec2Model ----
(***************************************************************************)
(* EnhancedMCPClient (app/mcp-client-enhanced.js): a client of two MCP     *)
(* endpoints, "storefront" (primary) and "customer" (scoped).  The model   *)
(* follows the client's fields, the connect operations in flight, one      *)
(* connectToAllServers call and one callTool call.                         *)
(*                                                                         *)
(* Granularity: JavaScript runs each piece of a handler between two awaits *)
(* to completion, so one action is the code from one await to the next.    *)
(* _makeJsonRpcRequestWithRetry touches no field of the client, so the     *)
(* whole retried request is one await: its attempts are the argument of    *)
(* the operator requestWithRetry.                                          *)
(*                                                                         *)
(* Further parts: one retried request attempt by attempt (SpecTransport),  *)
(* one chat request of handleChatSession with the streamResponse generator *)
(* of each backend (SpecChat), cleanSchemaForGemini (SpecSchema),         *)
(* testProvider (SpecProviders), callTool of the McpChatInterface          *)
(* component (SpecInterface), emit with callbacks registered (SpecEmit),   *)
(* initDB (SpecInitDB) and getCodeVerifier (SpecVerifier).                 *)
(***************************************************************************)
EXTENDS Integers, Sequences, FiniteSets, TLC

\* ------------------------------------------------------------------ bounds
\* the number of connect calls to one server that may be in flight together
MaxInFlight == 1
\* the longest tools/list answer of a server
MaxListLen == 2
\* the most callbacks registered on a client at a time, over all events
MaxListeners == 1
\* the largest options.retryAttempts a client is constructed with
MaxRetryAttempts == 3
\* the most chunks a backend sends in one model turn
MaxChunks == 2
\* the most tool calls a model asks for in one turn
MaxCalls == 2
\* the deepest nesting of schemas in a tool's input schema
MaxDepth == 1
\* the testProvider calls made
MaxTests == 2
\* the callbacks registered for an event when its emits are followed
MaxCallbacks == 2
\* the initDB calls made
MaxInits == 3
\* the getCodeVerifier calls made for one state
MaxLookups == 3

\* ------------------------------------------------------- program constants
retryAttempts == 3

Undefined == "undefined"
Null == "null"
NoConversation == ""
NoError == "none"

Servers == {"storefront", "customer"}

ConnectionStates == {"disconnected", "connecting", "ready", "requires-auth", "failed"}

\* ------------------------------------------------------------ environment
\* What the two servers can list: a tool as the server sends it.  "A" is
\* listed by both servers; the schema is sent as inputSchema, as
\* input_schema, as both or not at all.
StorefrontCatalog ==
    << [name |-> "A", description |-> "dA", inputSchema |-> "sA", input_schema |-> Undefined],
       [name |-> "B", description |-> "dB", inputSchema |-> Undefined, input_schema |-> "sB"],
       [name |-> "D", description |-> "dD", inputSchema |-> Undefined, input_schema |-> Undefined] >>

CustomerCatalog ==
    << [name |-> "A", description |-> "cA", inputSchema |-> "tA", input_schema |-> "uA"],
       [name |-> "C", description |-> "cC", inputSchema |-> Undefined, input_schema |-> Undefined],
       [name |-> "E", description |-> "cE", inputSchema |-> "tE", input_schema |-> Undefined] >>

Min(a, b) == IF a < b THEN a ELSE b

Catalog(server) == IF server = "storefront" THEN StorefrontCatalog ELSE CustomerCatalog

\* the tools/list answers of a server: the first n tools of its catalog
Listings(server) ==
    { SubSeq(Catalog(server), 1, n) : n \in 0..Min(MaxListLen, Len(Catalog(server))) }

\* a JSON-RPC answer to tools/list: with result.tools, or without
NoTools == [hasTools |-> FALSE, tools |-> << >>]

ListResponses(server) ==
    { [hasTools |-> TRUE, tools |-> l] : l \in Listings(server) } \cup {NoTools}

\* the names callTool is asked for: "X" is no tool of either server
ToolNames == {"A", "B", "C", "X"}

\* how one attempt of a request ends
Errors == {"network", "timeout", "http401", "http500", "rpc"}

AttemptOutcomes == {"ok"} \cup Errors

\* what getCustomerToken answers: a token row, or null
TokenLookups == {Null, "tok1"}

\* what generateAuthUrl does: answers {url}, or fails
AuthUrlOutcomes == {"url1", "genfail"}

ShopId == "shop1"

\* the events callbacks are registered for: the client's three, and one of
\* the caller's own
EventNames == {"connection-state-change", "tools-updated", "error", "custom"}

Callbacks == {"f", "g"}

\* the options a client is constructed with
RetryDelays == {1000, 250}

ClientOptions ==
    { [retryAttempts |-> n, retryDelay |-> d, timeout |-> 30000] :
        n \in 1..MaxRetryAttempts, d \in RetryDelays }

\* how fetch ends when the timer does not end it first: rejected (no
\* connection), or resolved with a response of some status
FetchOutcomes ==
    { [rejected |-> TRUE, status |-> 0] }
      \cup { [rejected |-> FALSE, status |-> st] : st \in {200, 401, 500} }

\* the JSON-RPC body of a response: a result, or an error object with its code
RpcBodies ==
    { [hasError |-> FALSE, code |-> 0], [hasError |-> TRUE, code |-> -32601] }

\* the AI backends
Providers == {"claude", "gemini", "cloudflare"}

\* a text is the sequence of its letters
Letters == << "a", "b", "c", "d" >>

\* the texts the n-th chunk of a backend's stream may carry: "", or the n-th
\* letter
ChunkTexts(n) == { << >>, << Letters[n] >> }

\* the text deltas of a whole Claude message of at most n deltas
DeltasOffered(n) == { [i \in 1..m |-> << Letters[i] >>] : m \in 0..n }

\* the text of a response that is no stream, or is read after iterating
\* failed: none, or a text
WholeTexts == { << >>, << "r" >> }

\* context is absent from the arguments
Absent == "absent"

\* the tool calls a model asks for: name and arguments
ToolCalls ==
    { [name |-> "search_shop_catalog", arguments |-> [context |-> c]] :
        c \in {Absent, "", "ctx"} }
      \cup { [name |-> "get_cart", arguments |-> [context |-> Absent]] }

\* the calls offered as the n-th call of the first turn of a request, and
\* of the continuation, where the orchestrator runs none
CallsOffered(turn, n) ==
    IF turn = "initial" /\ n = 1 THEN ToolCalls
    ELSE IF turn = "initial"
    THEN { c \in ToolCalls : c.arguments.context = Absent }
    ELSE { [name |-> "get_cart", arguments |-> [context |-> Absent]] }

\* the most calls offered in a turn
MostCalls(turn) == IF turn = "initial" THEN MaxCalls ELSE 1

\* the most chunks (deltas) a backend's stream has in a turn
MostChunks(turn) == IF turn = "initial" THEN MaxChunks ELSE 1

\* what callTool answers to the orchestrator: a payload, or {error: {type}}
ToolResponses ==
    { [error |-> FALSE, type |-> "success"],
      [error |-> TRUE, type |-> "auth_required"] }

\* JSON values: an object with its fields (a function from keys to values),
\* an array with its elements, or a string, number, boolean or null
JObject(fields) == [kind |-> "object", fields |-> fields, elems |-> << >>, atom |-> ""]

JArray(elems) == [kind |-> "array", fields |-> << >>, elems |-> elems, atom |-> ""]

JAtom(value) == [kind |-> "atom", fields |-> << >>, elems |-> << >>, atom |-> value]

\* the keywords of the schemas offered that have a plain value, with a value
SampleValue ==
    [ k \in {"type", "format", "additionalProperties", "$ref"} |->
        CASE k = "type" -> JAtom("string")
          [] k = "format" -> JAtom("date")
          [] k = "additionalProperties" -> JAtom("false")
          [] k = "$ref" -> JAtom("#/definitions/x") ]

\* schemas without sub-schemas: a type, with or without keywords that Gemini
\* does not take
LeafSchemas ==
    { JObject([ k \in {"type"} \cup extra |-> SampleValue[k] ]) :
        extra \in SUBSET {"format", "additionalProperties", "$ref"} }

\* the schemas that hold `inner`: as a property, as items (one schema, or
\* the array of the tuple form), as a branch of anyOf
Around(inner) ==
    { ("type" :> JAtom("object")) @@ ("properties" :> JObject("p" :> inner)),
      ("type" :> JAtom("array")) @@ ("items" :> inner),
      ("type" :> JAtom("array")) @@ ("items" :> JArray(<< inner >>)),
      ("anyOf" :> JArray(<< inner >>)) }

RECURSIVE Schemas(_)
\* the input schemas of tools, nested up to `depth` deep
Schemas(depth) ==
    IF depth = 0 THEN LeafSchemas
    ELSE Schemas(depth - 1)
           \cup { JObject(fields @@ [ k \in extra |-> SampleValue[k] ]) :
                    fields \in UNION { Around(inner) : inner \in Schemas(depth - 1) },
                    extra \in {{}, {"format"}} }

\* ------------------------------------------------------------- operators

\* a bug: the schema is read from input_schema alone
formatToolsData_SnakeCaseOnly(toolsData) ==
    [ i \in 1..Len(toolsData) |->
        [ name |-> toolsData[i].name,
          description |-> toolsData[i].description,
          input_schema |-> toolsData[i].input_schema ] ]

\* _formatToolsData
formatToolsData(toolsData) ==
    [ i \in 1..Len(toolsData) |->
        [ name |-> toolsData[i].name,
          description |-> toolsData[i].description,
          input_schema |-> IF toolsData[i].inputSchema # Undefined
                           THEN toolsData[i].inputSchema
                           ELSE toolsData[i].input_schema ] ]

\* response.result && response.result.tools ? response.result.tools : []
toolsDataOf(response) == IF response.hasTools THEN response.tools ELSE << >>

RECURSIVE requestWithRetry(_, _)
\* _makeJsonRpcRequestWithRetry: outcomes[k] is how attempt k would end;
\* answers the attempts made and "ok" or the error thrown
requestWithRetry(outcomes, attempt) ==
    IF outcomes[attempt] = "ok"
    THEN [end |-> "ok", attempts |-> attempt]
    ELSE IF attempt < retryAttempts
         THEN requestWithRetry(outcomes, attempt + 1)
         ELSE [end |-> outcomes[attempt], attempts |-> attempt]

\* every way a retried request can end
RequestEnds ==
    { requestWithRetry(o, 1).end : o \in [1..retryAttempts -> AttemptOutcomes] }

HasTool(list, toolName) == \E i \in 1..Len(list) : list[i].name = toolName


\* ------------------------------------------------------------------ state
VARIABLES
    connectionState,      \* this.connectionState: server -> state
    storefrontTools,      \* this.storefrontTools
    customerTools,        \* this.customerTools
    tools,                \* this.tools, the merged list
    customerAccessToken,  \* this.customerAccessToken
    conversationId,       \* this.conversationId, set by the constructor
    sfDirect,             \* connectToStorefrontServer calls in flight, made directly
    cuDirect,             \* connectToCustomerServer calls in flight, made directly,
                          \* by the await they are at
    allTask,              \* the connectToAllServers call in flight
    callTask,             \* the callTool call in flight
    ended,                \* the connect call that ended in the last step, how it
                          \* ended, and connectToAllServers' result if that
                          \* returned with it (history)
    called,               \* the callTool call that ended in the last step (history)
    listed,               \* server -> the toolsData of the tools/list that made it
                          \* ready, while it is ready (history)
    history,              \* which calls were made on the client so far (history)
    eventListeners,       \* this.eventListeners: event -> the callbacks registered
    emitted,              \* the events emitted in the last step, in order, each
                          \* with what the client held when it was emitted and
                          \* the callbacks called for it (history)
    options,              \* this.options: retryAttempts, retryDelay, timeout
    request,              \* the _makeJsonRpcRequestWithRetry call in flight: the
                          \* await it is at, the attempt, the timer, and the errors
                          \* and waits so far (history)
    finished,             \* the retried request that ended in the last step (history)
    provider,             \* the backend createAIService chose
    chat,                 \* handleChatSession: the await it is at, the turn it
                          \* reads, the batch of tool calls and the call at hand
    generator,            \* turn -> the streamResponse generator of that turn
    yielded,              \* the event the generator yielded, not yet handled
    conversationHistory,  \* conversationHistory, the messages given to the model
    saved,                \* the messages saveMessage stored for the conversation
    seen,                 \* what the request did so far (history)
    schema,               \* the schema cleanSchemaForGemini is called with
    cleaned,              \* what cleanSchemaForGemini returned for it
    env,                  \* process.env.AI_PROVIDER
    tests,                \* the testProvider calls: the await each is at, its
                          \* provider and its originalProvider; and the value
                          \* of process.env.AI_PROVIDER before them (history)
    storefrontMcp,        \* McpChatInterface: the tools of useMcp(storefrontMcpUrl)
    customerMcp,          \* McpChatInterface: the tools of useMcp(customerMcpUrl)
    uiCall,               \* McpChatInterface: the callTool call in flight, and
                          \* the hooks its closure holds
    dbInstance,           \* db-wrapper.js: dbInstance
    isInitializing,       \* db-wrapper.js: isInitializing
    isInitialized,        \* db-wrapper.js: isInitialized
    inits,                \* the initDB calls: the await each is at and what it
                          \* returned; and whether a setupSchema has succeeded
                          \* (history)
    codeVerifier,         \* the CodeVerifier table: the row of the state, if
                          \* stored, and whether it has expired
    lookups               \* the getCodeVerifier calls for the state: the await
                          \* each is at, the row it found and what it returned

vars == << connectionState, storefrontTools, customerTools, tools,
           customerAccessToken, conversationId, sfDirect, cuDirect, allTask,
           callTask, ended, called, listed, history, eventListeners, emitted,
           options, request, finished, provider, chat, generator, yielded,
           conversationHistory, saved, seen, schema, cleaned, env, tests,
           storefrontMcp, customerMcp, uiCall, dbInstance, isInitializing,
           isInitialized, inits, codeVerifier, lookups >>

\* the client's variables, but for its options
clientVars == << connectionState, storefrontTools, customerTools, tools,
                customerAccessToken, conversationId, sfDirect, cuDirect, allTask,
                callTask, ended, called, listed, history, eventListeners, emitted >>

\* one retried request, attempt by attempt
transportVars == << options, request, finished >>

\* the variables of the other components, which the client's operations
\* leave alone
\* one chat request: the orchestrator and the backend's stream
chatVars == << provider, chat, generator, yielded, conversationHistory, saved, seen >>

\* the database wrapper and the PKCE verifiers stored through it
dbVars == << dbInstance, isInitializing, isInitialized, inits, codeVerifier, lookups >>

\* the chat component of the browser, and the database layer
appVars == << storefrontMcp, customerMcp, uiCall, dbVars >>

\* the AI services' tool conversion and the provider test; and the
\* components beside them
serviceVars == << schema, cleaned, env, tests, appVars >>

restVars == << transportVars, chatVars, serviceVars >>

clientFields == << connectionState, storefrontTools, customerTools, tools,
                   customerAccessToken, conversationId >>

NotListed == [ok |-> FALSE, toolsData |-> << >>]

Listed(toolsData) == [ok |-> TRUE, toolsData |-> toolsData]

\* a connect call: the await it is at and, once done, how it ended (returned
\* value or thrown error) and the connection state it set
ConnectCall(st) ==
    [st |-> st, kind |-> "none", value |-> << >>, err |-> NoError, set |-> "connecting"]

NoAllResult == [storefront |-> << >>, customer |-> << >>, totalTools |-> 0]

NoAll == [returned |-> FALSE, alone |-> FALSE, sf |-> ConnectCall("idle"),
          cu |-> ConnectCall("idle"), result |-> NoAllResult]

\* dropped: the call replaced a list that held a name its new listing lacks;
\* for disconnect: it cleared a tool list and a registered callback
NoConnect == [call |-> "none", via |-> "none", kind |-> "none", value |-> << >>,
              err |-> NoError, set |-> "connecting", dropped |-> FALSE,
              all |-> NoAll]

\* alone: no other connect call and no disconnect ran during the call (history)
IdleAll == [pc |-> "idle", alone |-> FALSE, sf |-> ConnectCall("idle"),
            cu |-> ConnectCall("idle")]

NoResult == [kind |-> "none", type |-> "none", data |-> "none"]

IdleCall == [pc |-> "idle", toolName |-> "none", route |-> "none",
             inCustomer |-> FALSE, inStorefront |-> FALSE,
             accessToken |-> "", status |-> NoError]

NoCall == [toolName |-> "none", route |-> "none",
           inCustomer |-> FALSE, inStorefront |-> FALSE,
           accessToken |-> "", status |-> NoError, sent |-> {},
           authArgs |-> << >>, authUrl |-> "none",
           inner |-> NoResult, result |-> NoResult]

\* this.eventListeners as the constructor and disconnect() set it
NoListeners ==
    [ event \in {"connection-state-change", "tools-updated", "error"} |-> << >> ]

\* the defaults of this.options
DefaultOptions == [retryAttempts |-> retryAttempts, retryDelay |-> 1000, timeout |-> 30000]

\* errors, causes, waits: what each failed attempt threw and why, and the
\* waits made (history)
IdleRequest == [pc |-> "idle", attempt |-> 0, timer |-> FALSE, status |-> 0,
                errors |-> << >>, causes |-> << >>, waits |-> << >>]

\* error: the error thrown, when kind is "throw"
NoFinished == [kind |-> "none", error |-> << >>, attempts |-> 0,
               errors |-> << >>, causes |-> << >>, waits |-> << >>]

\* the constructor, but for this.options and this.eventListeners
ConstructedFields ==
    /\ connectionState = [s \in Servers |-> "disconnected"]
    /\ storefrontTools = << >>
    /\ customerTools = << >>
    /\ tools = << >>
    /\ customerAccessToken = ""
    /\ conversationId \in {NoConversation, "conv1"}
    /\ sfDirect = 0
    /\ cuDirect = [token |-> 0, request |-> 0]
    /\ allTask = IdleAll
    /\ callTask = IdleCall
    /\ ended = NoConnect
    /\ called = NoCall
    /\ listed = [s \in Servers |-> NotListed]
    /\ history = "fresh"
    /\ emitted = << >>
    /\ request = IdleRequest
    /\ finished = NoFinished

\* the constructor
Constructed ==
    /\ ConstructedFields
    /\ eventListeners = NoListeners

\* a streamResponse generator: where it is suspended, its fullResponse and
\* toolCalls, the chunks it got from the backend, the messages it was
\* given when it started, (events) the events it has yielded, each with its
\* type and its text, and (fallback) whether iterating the stream failed and
\* what the text field of the response then held
NoGenerator == [pc |-> "none", fullResponse |-> << >>, toolCalls |-> << >>,
                chunks |-> 0, messages |-> << >>, events |-> << >>,
                fallback |-> "none"]

\* an event a generator yields; `return` is the end of the generator
NoEvent == [type |-> "none", hasContent |-> FALSE, content |-> << >>,
            tool_calls |-> << >>]

NoResponse == [error |-> FALSE, type |-> "none"]

\* handleChatSession before it saves the user's message; k is the call of
\* the batch at hand, toolName and arguments what is passed to callTool,
\* response what callTool answered, final the text being saved
NoChat == [pc |-> "idle", turn |-> "initial", batch |-> << >>, k |-> 0,
           toolName |-> "none", arguments |-> [context |-> Absent],
           response |-> NoResponse, final |-> << >>,
           conversationComplete |-> FALSE]

\* steps: the steps taken for the call at hand; notified: the arguments in
\* its tool_use message; inFlight: the callTool calls not yet answered;
\* batches: the non-empty batches worked off; continuations: the
\* continuation streams started; kinds: the kinds of events the first turn
\* gave; forwarded: the text of the content events sent on as chunks in the
\* turn; failed: a saveMessage or getConversationHistory failed; error: an
\* error event of a stream was sent on as an error message; endTurns: the
\* end_turn messages sent
NothingSeen == [steps |-> << >>, notified |-> [context |-> Absent], inFlight |-> 0,
                batches |-> 0, continuations |-> 0, kinds |-> {},
                forwarded |-> << >>, failed |-> FALSE, error |-> FALSE,
                endTurns |-> 0]

\* no JSON value
NoJson == [kind |-> "none", fields |-> << >>, elems |-> << >>, atom |-> ""]

\* a testProvider call not made
NoTest == [pc |-> "idle", provider |-> Undefined, originalProvider |-> Undefined,
           success |-> FALSE]

\* calls: the testProvider calls; before: process.env.AI_PROVIDER before
\* the first of them; overlapped: one was started while another was awaiting
\* its response
NoTests == [calls |-> [id \in 1..MaxTests |-> NoTest], before |-> Undefined,
            overlapped |-> FALSE]

\* no chat request
NoChatSession ==
    /\ provider = "claude"
    /\ chat = NoChat
    /\ generator = [turn \in {"initial", "continuation"} |-> NoGenerator]
    /\ yielded = NoEvent
    /\ conversationHistory = << >>
    /\ saved = << >>
    /\ seen = NothingSeen

\* a useMcp hook before its server listed tools: tools is undefined
NoHookTools == [defined |-> FALSE, tools |-> << >>]

\* no callTool call of McpChatInterface
NoUiCall == [pc |-> "idle", toolName |-> "", route |-> "none",
             storefrontMcp |-> NoHookTools, customerMcp |-> NoHookTools,
             result |-> "none"]

\* an initDB call not made
NoInit == [pc |-> "idle", result |-> FALSE]

\* calls: the initDB calls; setupOk: a setupSchema call has returned true
NoInits == [calls |-> [id \in 1..MaxInits |-> NoInit], setupOk |-> FALSE]

\* no row in the CodeVerifier table
NoRow == [stored |-> FALSE, expired |-> FALSE]

\* a getCodeVerifier call not made; verifier: what findFirst answered
NoLookup == [pc |-> "idle", verifier |-> Null, result |-> Null]

\* the database module loaded, no call made
NoDbCalls ==
    /\ dbInstance = Null
    /\ isInitializing = FALSE
    /\ isInitialized = FALSE
    /\ inits = NoInits
    /\ codeVerifier = NoRow
    /\ lookups = [id \in 1..MaxLookups |-> NoLookup]

\* the chat component not rendered, the database module not used
NoAppCalls ==
    /\ storefrontMcp = NoHookTools
    /\ customerMcp = NoHookTools
    /\ uiCall = NoUiCall
    /\ NoDbCalls

\* no schema converted and no provider tested
NoServiceCalls ==
    /\ schema = NoJson
    /\ cleaned = NoJson
    /\ env = Undefined
    /\ tests = NoTests
    /\ NoAppCalls

\* the constructor, with the default options
Init ==
    /\ Constructed
    /\ options = DefaultOptions
    /\ NoChatSession
    /\ NoServiceCalls

\* the constructor, with options given
InitTransport ==
    /\ Constructed
    /\ options \in ClientOptions
    /\ NoChatSession
    /\ NoServiceCalls

\* handleChatSession with the client connected, about to save the user's
\* message, for each backend
InitChat ==
    /\ Constructed
    /\ conversationId = "conv1"
    /\ options = DefaultOptions
    /\ provider \in Providers
    /\ chat = [NoChat EXCEPT !.pc = "saveUser"]
    /\ generator = [turn \in {"initial", "continuation"} |-> NoGenerator]
    /\ yielded = NoEvent
    /\ conversationHistory = << >>
    /\ saved = << >>
    /\ seen = NothingSeen
    /\ NoServiceCalls

\* ---------------------------------------------------------------- connect

\* the callbacks that throw when they are called
Throwing == {"g"}

\* a bug: emit calls the callbacks without a try, so the first that throws
\* ends the forEach and the exception leaves emit
emit_Unguarded(event, listeners) ==
    LET list == IF event \in DOMAIN listeners THEN listeners[event] ELSE << >>
        throwers == { i \in 1..Len(list) : list[i] \in Throwing }
        first == IF throwers = {} THEN Len(list)
                 ELSE CHOOSE i \in throwers : \A j \in throwers : i <= j
    IN  [called |-> SubSeq(list, 1, first), thrown |-> throwers # {}]

\* emit(event, data): every callback registered for the event is called, in
\* the order of registration, each in a try whose catch only logs
emit(event, listeners) ==
    LET list == IF event \in DOMAIN listeners THEN listeners[event] ELSE << >>
    IN  [called |-> list, thrown |-> FALSE]

\* what a callback can read from the client while it is called
client ==
    [currentState |-> connectionState, storefrontTools |-> storefrontTools,
     customerTools |-> customerTools, tools |-> tools]

\* an event emitted while the client held `view`: state is the state of a
\* connection-state-change
notice(event, server, state, view) ==
    [event |-> event, server |-> server, state |-> state,
     currentState |-> view.currentState, storefrontTools |-> view.storefrontTools,
     customerTools |-> view.customerTools, tools |-> view.tools,
     called |-> emit(event, eventListeners).called,
     thrown |-> emit(event, eventListeners).thrown]

\* the emit of updateConnectionState(server, state)
stateChange(server, state, view) ==
    notice("connection-state-change", server, state, view)

\* a bug: tools-updated is emitted before the state change to ready
connectEmits_ToolsFirst(server, state, view) ==
    IF state = "ready"
    THEN << notice("tools-updated", server, "none", view), stateChange(server, state, view) >>
    ELSE IF state = "failed"
    THEN << stateChange(server, state, view), notice("error", server, "none", view) >>
    ELSE << stateChange(server, state, view) >>

\* the events a connect call emits when it has set `state`: after ready
\* tools-updated, after failed error
connectEmits(server, state, view) ==
    IF state = "ready"
    THEN << stateChange(server, state, view), notice("tools-updated", server, "none", view) >>
    ELSE IF state = "failed"
    THEN << stateChange(server, state, view), notice("error", server, "none", view) >>
    ELSE << stateChange(server, state, view) >>

\* a bug: the state is set for both servers
updateConnectionState_Both(server, state) ==
    connectionState' = [s \in Servers |-> state]

\* updateConnectionState(server, state)
updateConnectionState(server, state) ==
    connectionState' = [connectionState EXCEPT ![server] = state]

\* connectToStorefrontServer after a successful tools/list: what it returns
storefrontSuccess(response) ==
    [st |-> "done", kind |-> "return", value |-> formatToolsData(toolsDataOf(response)),
     err |-> NoError, set |-> "ready"]

\* connectToStorefrontServer's catch: sets failed and throws the error again
storefrontCatch(error) ==
    [st |-> "done", kind |-> "throw", value |-> << >>, err |-> error, set |-> "failed"]

\* connectToCustomerServer after a successful tools/list
customerSuccess(response) ==
    [st |-> "done", kind |-> "return", value |-> formatToolsData(toolsDataOf(response)),
     err |-> NoError, set |-> "ready"]

\* a bug: the catch throws the error again, as connectToStorefrontServer's does
customerCatch_Rethrow(error) ==
    [st |-> "done", kind |-> "throw", value |-> << >>, err |-> error, set |-> "failed"]

\* connectToCustomerServer's catch: sets failed and returns []
customerCatch(error) ==
    [st |-> "done", kind |-> "return", value |-> << >>, err |-> error, set |-> "failed"]

\* connectToCustomerServer with no token in the database: requires-auth, returns []
customerNoToken ==
    [st |-> "done", kind |-> "return", value |-> << >>, err |-> NoError,
     set |-> "requires-auth"]

\* a bug: the merged list is built from the stale storefront field
mergedAfterStorefront_Stale(newStorefrontTools, oldCustomerTools) ==
    storefrontTools \o oldCustomerTools

\* this.tools = [...storefrontTools, ...this.customerTools]
mergedAfterStorefront(newStorefrontTools, oldCustomerTools) ==
    newStorefrontTools \o oldCustomerTools

\* a bug: an empty listing leaves the merged list as it was
mergedAfterCustomer_KeepOnEmpty(oldStorefrontTools, newCustomerTools) ==
    IF newCustomerTools = << >> THEN tools ELSE oldStorefrontTools \o newCustomerTools

\* a bug: the customer tools come first in the merged list
mergedAfterCustomer_CustomerFirst(oldStorefrontTools, newCustomerTools) ==
    newCustomerTools \o oldStorefrontTools

\* this.tools = [...this.storefrontTools, ...customerTools]
mergedAfterCustomer(oldStorefrontTools, newCustomerTools) ==
    oldStorefrontTools \o newCustomerTools

\* what connectToAllServers returns once both connects are settled
connectAllResult(storefrontResult, customerResult, toolsNow) ==
    [ storefront |-> IF storefrontResult.kind = "return" THEN storefrontResult.value ELSE << >>,
      customer |-> IF customerResult.kind = "return" THEN customerResult.value ELSE << >>,
      totalTools |-> Len(toolsNow) ]

\* Promise.allSettled's view of a connect call that ended: the reason of a
\* rejection is only logged
settled(call) == [call EXCEPT !.err = IF call.err # NoError THEN "error" ELSE NoError]

\* a call made on the client, for the history
noted(call) ==
    IF history = "fresh" /\ call = "connectToAllServers" THEN "oneConnectAll" ELSE "other"

\* the part of connectToCustomerServer before its first await: the await it stops at
customerFirstAwait == IF conversationId # NoConversation THEN "token" ELSE "request"

\* the connect calls to a server that are in flight
storefrontInFlight == sfDirect + (IF allTask.sf.st = "request" THEN 1 ELSE 0)

customerInFlight ==
    cuDirect.token + cuDirect.request
      + (IF allTask.cu.st \in {"token", "request"} THEN 1 ELSE 0)

\* connectToAllServers, if in flight, is no longer alone
notAlone == [allTask EXCEPT !.alone = FALSE]

\* connectToStorefrontServer(), called directly: up to the request's await
ConnectStorefrontStart ==
    /\ storefrontInFlight < MaxInFlight
    /\ updateConnectionState("storefront", "connecting")
    /\ sfDirect' = sfDirect + 1
    /\ listed' = [listed EXCEPT !["storefront"] = NotListed]
    /\ history' = noted("connectToStorefrontServer")
    /\ ended' = NoConnect
    /\ called' = NoCall
    /\ UNCHANGED << eventListeners, restVars >>
    /\ UNCHANGED << storefrontTools, customerTools, tools, customerAccessToken,
                    conversationId, cuDirect, callTask >>
    /\ allTask' = notAlone
    /\ emitted' = connectEmits("storefront", "connecting",
                               [client EXCEPT !.currentState = connectionState'])

\* connectToCustomerServer(), called directly: up to its first await
ConnectCustomerStart ==
    /\ customerInFlight < MaxInFlight
    /\ updateConnectionState("customer", "connecting")
    /\ cuDirect' = [cuDirect EXCEPT ![customerFirstAwait] = @ + 1]
    /\ listed' = [listed EXCEPT !["customer"] = NotListed]
    /\ history' = noted("connectToCustomerServer")
    /\ ended' = NoConnect
    /\ called' = NoCall
    /\ UNCHANGED << eventListeners, restVars >>
    /\ UNCHANGED << storefrontTools, customerTools, tools, customerAccessToken,
                    conversationId, sfDirect, callTask >>
    /\ allTask' = notAlone
    /\ emitted' = connectEmits("customer", "connecting",
                               [client EXCEPT !.currentState = connectionState'])

\* connectToAllServers(): both connects run up to their first await
ConnectAllStart ==
    /\ allTask.pc = "idle"
    /\ storefrontInFlight < MaxInFlight
    /\ customerInFlight < MaxInFlight
    /\ connectionState' = [s \in Servers |-> "connecting"]
    /\ allTask' = [pc |-> "waiting",
                   alone |-> storefrontInFlight = 0 /\ customerInFlight = 0,
                   sf |-> ConnectCall("request"),
                   cu |-> ConnectCall(customerFirstAwait)]
    /\ listed' = [s \in Servers |-> NotListed]
    /\ history' = noted("connectToAllServers")
    /\ ended' = NoConnect
    /\ called' = NoCall
    /\ UNCHANGED << eventListeners, restVars >>
    /\ UNCHANGED << storefrontTools, customerTools, tools, customerAccessToken,
                    conversationId, sfDirect, cuDirect, callTask >>
    /\ emitted' =
          connectEmits("storefront", "connecting",
                       [client EXCEPT !.currentState =
                           [connectionState EXCEPT !["storefront"] = "connecting"]])
          \o connectEmits("customer", "connecting",
                          [client EXCEPT !.currentState = connectionState'])

\* a connect call is at await `st`, directly (via = "direct") or in connectToAllServers
StorefrontAt(via, st) ==
    IF via = "direct" THEN st = "request" /\ sfDirect > 0 ELSE allTask.sf.st = st

CustomerAt(via, st) ==
    IF via = "direct" THEN cuDirect[st] > 0 ELSE allTask.cu.st = st

\* Promise.allSettled: connectToAllServers goes on, and returns, when both
\* connects are done.
\* the connect call `name` ends with `call`
ConnectEnds(name, via, call, toolsNow) ==
    LET before == IF name = "connectToStorefrontServer"
                  THEN storefrontTools ELSE customerTools
        end == [call |-> name, via |-> via, kind |-> call.kind, value |-> call.value,
                err |-> call.err, set |-> call.set,
                dropped |-> /\ call.set = "ready"
                            /\ \E i \in 1..Len(before) :
                                  ~HasTool(call.value, before[i].name),
                all |-> NoAll]
        all == IF name = "connectToStorefrontServer"
               THEN [allTask EXCEPT !.sf = settled(call)]
               ELSE [allTask EXCEPT !.cu = settled(call)]
    IN  IF via = "direct"
        THEN /\ ended' = end
             /\ UNCHANGED allTask
        ELSE IF all.sf.st = "done" /\ all.cu.st = "done"
             THEN /\ allTask' = IdleAll
                  /\ ended' = [end EXCEPT !.all =
                        [returned |-> TRUE, alone |-> all.alone,
                         sf |-> all.sf, cu |-> all.cu,
                         result |-> connectAllResult(all.sf, all.cu, toolsNow)]]
             ELSE /\ allTask' = all
                  /\ ended' = end

\* connectToStorefrontServer: the tools/list request ends
StorefrontRequestEnds(via) ==
    /\ StorefrontAt(via, "request")
    /\ \E end \in RequestEnds :
         IF end = "ok"
         THEN \E response \in ListResponses("storefront") :
              LET call == storefrontSuccess(response)
              IN  /\ storefrontTools' = call.value
                  /\ tools' = mergedAfterStorefront(call.value, customerTools)
                  /\ updateConnectionState("storefront", call.set)
                  /\ listed' = [listed EXCEPT !["storefront"] = Listed(toolsDataOf(response))]
                  /\ ConnectEnds("connectToStorefrontServer", via, call, tools')
         ELSE LET call == storefrontCatch(end)
              IN  /\ updateConnectionState("storefront", call.set)
                  /\ ConnectEnds("connectToStorefrontServer", via, call, tools)
                  /\ listed' = [listed EXCEPT !["storefront"] = NotListed]
                  /\ UNCHANGED << storefrontTools, tools >>
    /\ sfDirect' = IF via = "direct" THEN sfDirect - 1 ELSE sfDirect
    /\ called' = NoCall
    /\ UNCHANGED << eventListeners, restVars >>
    /\ UNCHANGED << customerTools, customerAccessToken, conversationId, cuDirect,
                    callTask, history >>
    /\ emitted' = connectEmits("storefront", ended'.set, client')

\* connectToCustomerServer: getCustomerToken answers
CustomerTokenEnds(via) ==
    /\ CustomerAt(via, "token")
    /\ \E dbToken \in TokenLookups :
         IF dbToken # Null
         THEN /\ customerAccessToken' = dbToken
              /\ IF via = "direct"
                 THEN /\ cuDirect' = [token |-> cuDirect.token - 1,
                                      request |-> cuDirect.request + 1]
                      /\ UNCHANGED allTask
                 ELSE /\ allTask' = [allTask EXCEPT !.cu = ConnectCall("request")]
                      /\ UNCHANGED cuDirect
              /\ ended' = NoConnect
              /\ UNCHANGED << connectionState, listed >>
         ELSE /\ updateConnectionState("customer", customerNoToken.set)
              /\ ConnectEnds("connectToCustomerServer", via, customerNoToken, tools)
              /\ cuDirect' = IF via = "direct"
                             THEN [cuDirect EXCEPT !.token = @ - 1] ELSE cuDirect
              /\ listed' = [listed EXCEPT !["customer"] = NotListed]
              /\ UNCHANGED customerAccessToken
    /\ called' = NoCall
    /\ UNCHANGED << eventListeners, restVars >>
    /\ UNCHANGED << storefrontTools, customerTools, tools, conversationId, sfDirect,
                    callTask, history >>
    /\ emitted' = IF ended'.call = "connectToCustomerServer"
                  THEN connectEmits("customer", ended'.set, client')
                  ELSE << >>

\* connectToCustomerServer: the tools/list request ends
CustomerRequestEnds(via) ==
    /\ CustomerAt(via, "request")
    /\ \E end \in RequestEnds :
         IF end = "ok"
         THEN \E response \in ListResponses("customer") :
              LET call == customerSuccess(response)
              IN  /\ customerTools' = call.value
                  /\ tools' = mergedAfterCustomer(storefrontTools, call.value)
                  /\ updateConnectionState("customer", call.set)
                  /\ listed' = [listed EXCEPT !["customer"] = Listed(toolsDataOf(response))]
                  /\ ConnectEnds("connectToCustomerServer", via, call, tools')
         ELSE LET call == customerCatch(end)
              IN  /\ updateConnectionState("customer", call.set)
                  /\ ConnectEnds("connectToCustomerServer", via, call, tools)
                  /\ listed' = [listed EXCEPT !["customer"] = NotListed]
                  /\ UNCHANGED << customerTools, tools >>
    /\ cuDirect' = IF via = "direct"
                   THEN [cuDirect EXCEPT !.request = @ - 1] ELSE cuDirect
    /\ called' = NoCall
    /\ UNCHANGED << eventListeners, restVars >>
    /\ UNCHANGED << storefrontTools, customerAccessToken, conversationId, sfDirect,
                    callTask, history >>
    /\ emitted' = connectEmits("customer", ended'.set, client')

\* ------------------------------------------------------- event listeners

RECURSIVE SumOver(_, _)
SumOver(f, S) ==
    IF S = {} THEN 0
    ELSE LET x == CHOOSE y \in S : TRUE IN f[x] + SumOver(f, S \ {x})

\* the callbacks registered, over all events
registered ==
    SumOver([event \in DOMAIN eventListeners |-> Len(eventListeners[event])],
            DOMAIN eventListeners)

\* Array.prototype.indexOf, from 1; 0 when the callback is not in the list
IndexOf(list, callback) ==
    IF \E i \in 1..Len(list) : list[i] = callback
    THEN CHOOSE i \in 1..Len(list) :
            /\ list[i] = callback
            /\ \A j \in 1..(i - 1) : list[j] # callback
    ELSE 0

\* list.splice(index, 1)
Splice(list, index) == SubSeq(list, 1, index - 1) \o SubSeq(list, index + 1, Len(list))

\* addEventListener(event, callback)
AddEventListener(event, callback) ==
    /\ registered < MaxListeners
    /\ eventListeners' =
          [ e \in DOMAIN eventListeners \cup {event} |->
              IF e = event
              THEN (IF event \in DOMAIN eventListeners
                    THEN eventListeners[event] ELSE << >>) \o << callback >>
              ELSE eventListeners[e] ]
    /\ ended' = NoConnect
    /\ called' = NoCall
    /\ emitted' = << >>
    /\ UNCHANGED restVars
    /\ UNCHANGED << connectionState, storefrontTools, customerTools, tools,
                    customerAccessToken, conversationId, sfDirect, cuDirect, allTask,
                    callTask, listed, history >>

\* removeEventListener(event, callback)
RemoveEventListener(event, callback) ==
    /\ eventListeners' =
          IF event \in DOMAIN eventListeners
               /\ IndexOf(eventListeners[event], callback) > 0
          THEN [eventListeners EXCEPT ![event] =
                   Splice(@, IndexOf(eventListeners[event], callback))]
          ELSE eventListeners
    /\ ended' = NoConnect
    /\ called' = NoCall
    /\ emitted' = << >>
    /\ UNCHANGED restVars
    /\ UNCHANGED << connectionState, storefrontTools, customerTools, tools,
                    customerAccessToken, conversationId, sfDirect, cuDirect, allTask,
                    callTask, listed, history >>

\* a bug: disconnect() leaves the registered callbacks in place
clearedListeners_Kept == eventListeners

\* the eventListeners object disconnect() assigns
clearedListeners == NoListeners

\* disconnect()
Disconnect ==
    /\ connectionState' = [s \in Servers |-> "disconnected"]
    /\ tools' = << >>
    /\ customerTools' = << >>
    /\ storefrontTools' = << >>
    /\ listed' = [s \in Servers |-> NotListed]
    /\ eventListeners' = clearedListeners
    /\ history' = noted("disconnect")
    /\ ended' = [NoConnect EXCEPT !.call = "disconnect",
                               !.dropped = tools # << >> /\ registered > 0]
    /\ called' = NoCall
    /\ UNCHANGED restVars
    /\ UNCHANGED << customerAccessToken, conversationId, sfDirect, cuDirect,
                    callTask >>
    /\ allTask' = notAlone
    /\ emitted' =
          << stateChange("storefront", "disconnected",
                         [client EXCEPT !.currentState =
                             [connectionState EXCEPT !["storefront"] = "disconnected"]]),
             stateChange("customer", "disconnected",
                         [client EXCEPT !.currentState = connectionState']) >>

\* --------------------------------------------------------------- callTool

Success == [kind |-> "return", type |-> "success", data |-> "payload"]

\* a bug: the storefront list is asked first
routeOf_StorefrontFirst(toolName, customerList, storefrontList) ==
    IF HasTool(storefrontList, toolName) THEN "storefront"
    ELSE IF HasTool(customerList, toolName) THEN "customer"
    ELSE "none"

\* a bug: a name in neither list goes to the storefront server
routeOf_StorefrontDefault(toolName, customerList, storefrontList) ==
    IF HasTool(customerList, toolName) THEN "customer" ELSE "storefront"

\* callTool's choice of a server: the customer list is asked first
routeOf(toolName, customerList, storefrontList) ==
    IF HasTool(customerList, toolName) THEN "customer"
    ELSE IF HasTool(storefrontList, toolName) THEN "storefront"
    ELSE "none"

\* the endpoint callCustomerTool / callStorefrontTool send tools/call to
requestEndpoint(route) ==
    IF route = "customer" THEN "customerMcpEndpoint" ELSE "storefrontMcpEndpoint"

\* callTool's answer for a name in neither list
toolNotFound(toolName) ==
    [kind |-> "return", type |-> "tool_not_found", data |-> toolName]

\* callStorefrontTool's catch
storefrontToolCatch(error) ==
    [kind |-> "return", type |-> "internal_error", data |-> error]

\* a bug: the outer catch answers with the bare error, no structured type
customerToolCatch_Bare(error) ==
    [kind |-> "return", type |-> error, data |-> error]

\* callCustomerTool's outer catch
customerToolCatch(error) ==
    [kind |-> "return", type |-> "internal_error", data |-> error]

\* a bug: the status compared with is 403
isUnauthorized_403(error) == error = "http403"

\* error.status === 401
isUnauthorized(error) == error = "http401"

\* generateAuthUrl(this.conversationId, this.shopId)
authUrlArgs == << conversationId, ShopId >>

\* callCustomerTool's answer to a 401, with the generated link
authRequired(url) ==
    [kind |-> "return", type |-> "auth_required", data |-> url]

\* callTool's try/catch around the call it routes to
callToolCatch(inner) ==
    IF inner.kind = "throw"
    THEN [kind |-> "return", type |-> "internal_error", data |-> inner.data]
    ELSE inner

\* the callTool call in flight ends: callCustomerTool / callStorefrontTool
\* ended with `inner`, its request with `status`
CallEnds(status, inner, authArgs, authUrl) ==
    /\ called' = [toolName |-> callTask.toolName, route |-> callTask.route,
                  inCustomer |-> callTask.inCustomer,
                  inStorefront |-> callTask.inStorefront,
                  accessToken |-> callTask.accessToken, status |-> status,
                  sent |-> {requestEndpoint(callTask.route)},
                  authArgs |-> authArgs, authUrl |-> authUrl,
                  inner |-> inner, result |-> callToolCatch(inner)]
    /\ callTask' = IdleCall

\* callTool's catch emits error
callEmits(result) ==
    IF result.type = "internal_error"
    THEN << notice("error", "none", "none", client) >> ELSE << >>

\* callTool(toolName, toolArgs): up to the first await
CallToolStart(toolName) ==
    /\ callTask.pc = "idle"
    /\ LET route == routeOf(toolName, customerTools, storefrontTools)
           task == [IdleCall EXCEPT !.toolName = toolName, !.route = route,
                       !.inCustomer = HasTool(customerTools, toolName),
                       !.inStorefront = HasTool(storefrontTools, toolName),
                       !.accessToken = IF route = "customer"
                                       THEN customerAccessToken ELSE ""]
       IN  IF route = "none"
           THEN /\ called' = [NoCall EXCEPT !.toolName = toolName,
                                 !.result = toolNotFound(toolName)]
                /\ UNCHANGED callTask
           ELSE /\ callTask' =
                     [task EXCEPT !.pc = IF route = "customer" /\ customerAccessToken = ""
                                         THEN "token" ELSE "request"]
                /\ called' = NoCall
    /\ ended' = NoConnect
    /\ UNCHANGED << eventListeners, restVars >>
    /\ UNCHANGED << connectionState, storefrontTools, customerTools, tools,
                    customerAccessToken, conversationId, sfDirect, cuDirect, allTask,
                    listed, history >>
    /\ emitted' = callEmits(called'.result)

\* callCustomerTool: getCustomerToken answers
CallTokenEnds ==
    /\ callTask.pc = "token"
    /\ \E dbToken \in TokenLookups :
         IF dbToken # Null
         THEN /\ customerAccessToken' = dbToken
              /\ callTask' = [callTask EXCEPT !.pc = "request", !.accessToken = dbToken]
         ELSE /\ callTask' = [callTask EXCEPT !.pc = "request"]
              /\ UNCHANGED customerAccessToken
    /\ ended' = NoConnect
    /\ called' = NoCall
    /\ UNCHANGED << eventListeners, restVars >>
    /\ UNCHANGED << connectionState, storefrontTools, customerTools, tools,
                    conversationId, sfDirect, cuDirect, allTask, listed, history >>
    /\ emitted' = << >>

\* callCustomerTool / callStorefrontTool: the tools/call request ends
CallRequestEnds ==
    /\ callTask.pc = "request"
    /\ \E end \in RequestEnds :
         IF end = "ok"
         THEN CallEnds(end, Success, << >>, "none")
         ELSE IF callTask.route = "storefront"
         THEN CallEnds(end, storefrontToolCatch(end), << >>, "none")
         ELSE IF isUnauthorized(end)
         THEN /\ callTask' = [callTask EXCEPT !.pc = "authUrl", !.status = end]
              /\ called' = NoCall
         ELSE CallEnds(end, customerToolCatch(end), << >>, "none")
    /\ ended' = NoConnect
    /\ UNCHANGED << eventListeners, restVars >>
    /\ UNCHANGED << connectionState, storefrontTools, customerTools, tools,
                    customerAccessToken, conversationId, sfDirect, cuDirect, allTask,
                    listed, history >>
    /\ emitted' = callEmits(called'.result)

\* callCustomerTool after a 401: generateAuthUrl answers, or fails
CallAuthUrlEnds ==
    /\ callTask.pc = "authUrl"
    /\ \E outcome \in AuthUrlOutcomes :
         IF outcome # "genfail"
         THEN CallEnds(callTask.status, authRequired(outcome), authUrlArgs, outcome)
         ELSE CallEnds(callTask.status, customerToolCatch(outcome), authUrlArgs, outcome)
    /\ ended' = NoConnect
    /\ UNCHANGED << eventListeners, restVars >>
    /\ UNCHANGED << connectionState, storefrontTools, customerTools, tools,
                    customerAccessToken, conversationId, sfDirect, cuDirect, allTask,
                    listed, history >>
    /\ emitted' = callEmits(called'.result)

\* -------------------------------------------------------------- transport

\* the errors of an attempt; status and code are 0 where the code sets
\* none, ms is the number in the message
NetworkError ==
    [name |-> "TypeError", message |-> "fetch failed", ms |-> 0, status |-> 0, code |-> 0]

AbortError ==
    [name |-> "AbortError", message |-> "aborted", ms |-> 0, status |-> 0, code |-> 0]

\* new Error(`Request timeout after ${timeout}ms`)
timeoutError(timeout) ==
    [name |-> "Error", message |-> "Request timeout after", ms |-> timeout,
     status |-> 0, code |-> 0]

\* new Error(`Request failed: ...`) with error.status
httpError(status) ==
    [name |-> "Error", message |-> "Request failed", ms |-> 0, status |-> status,
     code |-> 0]

\* new Error(`JSON-RPC Error: ...`) with error.code
rpcError(code) ==
    [name |-> "Error", message |-> "JSON-RPC Error", ms |-> 0, status |-> 0,
     code |-> code]

\* a bug: the abort error is thrown on as it is
attemptCatch_Raw(error) == error

\* _makeJsonRpcRequest's catch: what it throws for `error`
attemptCatch(error) ==
    IF error.name = "AbortError" THEN timeoutError(options.timeout) ELSE error

\* a bug: one attempt more than retryAttempts
mayRetry_Inclusive(attempt) == attempt <= options.retryAttempts

\* attempt < this.options.retryAttempts
mayRetry(attempt) == attempt < options.retryAttempts

\* a bug: the wait does not grow with the attempts
backoffDelay_Constant(attempt) == options.retryDelay

\* const delay = this.options.retryDelay * attempt
backoffDelay(attempt) == options.retryDelay * attempt

\* the retried request ends: returns the result, or throws `error`
RequestEndsWith(kind, error, errors, causes) ==
    /\ finished' = [kind |-> kind, error |-> error, attempts |-> request.attempt,
                    errors |-> errors, causes |-> causes, waits |-> request.waits]
    /\ request' = IdleRequest

\* _makeJsonRpcRequest throws `error`: _makeJsonRpcRequestWithRetry's catch
AttemptFails(cause, error) ==
    LET errors == Append(request.errors, error)
        causes == Append(request.causes, cause)
    IN  IF mayRetry(request.attempt)
        THEN /\ request' = [request EXCEPT !.pc = "backoff", !.timer = FALSE,
                                !.status = 0, !.errors = errors, !.causes = causes,
                                !.waits = Append(@, backoffDelay(request.attempt))]
             /\ finished' = NoFinished
        ELSE RequestEndsWith("throw", << error >>, errors, causes)

\* _makeJsonRpcRequestWithRetry(endpoint, method, params, headers): the first
\* attempt, up to fetch's await, with the timer set
RequestStart ==
    /\ request.pc = "idle"
    /\ request' = [IdleRequest EXCEPT !.pc = "fetch", !.attempt = 1, !.timer = TRUE]
    /\ finished' = NoFinished
    /\ UNCHANGED << options, clientVars, chatVars, serviceVars >>

\* the timer fires while fetch is awaited: controller.abort() rejects fetch
\* with the abort error, which the catch of the attempt takes
TimerFires ==
    /\ request.pc = "fetch"
    /\ request.timer
    /\ AttemptFails("timer", attemptCatch(AbortError))
    /\ UNCHANGED << options, clientVars, chatVars, serviceVars >>

\* fetch ends: rejected, or resolved with a response; clearTimeout
FetchEnds ==
    /\ request.pc = "fetch"
    /\ \E outcome \in FetchOutcomes :
         IF outcome.rejected
         THEN AttemptFails("rejected", attemptCatch(NetworkError))
         ELSE /\ request' = [request EXCEPT
                                !.pc = IF outcome.status = 200 THEN "json" ELSE "text",
                                !.timer = FALSE, !.status = outcome.status]
              /\ finished' = NoFinished
    /\ UNCHANGED << options, clientVars, chatVars, serviceVars >>

\* !response.ok: response.text() answers, the error with the status is thrown
TextEnds ==
    /\ request.pc = "text"
    /\ AttemptFails("status", attemptCatch(httpError(request.status)))
    /\ UNCHANGED << options, clientVars, chatVars, serviceVars >>

\* response.json() answers: result.error is thrown, a result is returned
JsonEnds ==
    /\ request.pc = "json"
    /\ \E body \in RpcBodies :
         IF body.hasError
         THEN AttemptFails("rpc", attemptCatch(rpcError(body.code)))
         ELSE RequestEndsWith("return", << >>, request.errors, request.causes)
    /\ UNCHANGED << options, clientVars, chatVars, serviceVars >>

\* the wait before the next attempt ends: the next attempt, up to fetch's await
BackoffEnds ==
    /\ request.pc = "backoff"
    /\ request' = [request EXCEPT !.pc = "fetch", !.attempt = @ + 1, !.timer = TRUE]
    /\ finished' = NoFinished
    /\ UNCHANGED << options, clientVars, chatVars, serviceVars >>

\* ------------------------------------------------------- streamResponse

\* a bug: the text callback assigns the delta instead of appending it
Concat_Last(texts) == IF texts = << >> THEN << >> ELSE texts[Len(texts)]

RECURSIVE Concat(_)
\* the texts of a sequence, joined
Concat(texts) ==
    IF texts = << >> THEN << >> ELSE Head(texts) \o Concat(Tail(texts))

\* the sequences over S of length up to n
SeqsUpTo(S, n) == UNION { [1..m -> S] : m \in 0..n }

\* JSON.stringify(input || {}) and JSON.parse of it
stringify(arguments) == [json |-> arguments]

parse(text) == text.json

\* the toolCalls entry of a call the model asks for
functionCall(call) ==
    [type |-> "function",
     function |-> [name |-> call.name, arguments |-> stringify(call.arguments)]]

contentEvent(text) ==
    [type |-> "content", hasContent |-> TRUE, content |-> text, tool_calls |-> << >>]

toolCallsEvent(toolCalls) ==
    [type |-> "tool_calls", hasContent |-> FALSE, content |-> << >>,
     tool_calls |-> toolCalls]

errorEvent ==
    [type |-> "error", hasContent |-> FALSE, content |-> << >>, tool_calls |-> << >>]

returnEvent ==
    [type |-> "return", hasContent |-> FALSE, content |-> << >>, tool_calls |-> << >>]

\* the done event: Gemini's carries content: fullResponse, Claude's and
\* Cloudflare's carry usage only
doneEvent(fullResponse) ==
    IF provider = "gemini"
    THEN [type |-> "done", hasContent |-> TRUE, content |-> fullResponse,
          tool_calls |-> << >>]
    ELSE [type |-> "done", hasContent |-> FALSE, content |-> << >>,
          tool_calls |-> << >>]

\* a generator that has ended: its locals are gone
Returned == [NoGenerator EXCEPT !.pc = "returned"]

\* the generator whose next event handleChatSession awaits
current == generator[chat.turn]

pulled == chat.pc = "pull" /\ yielded = NoEvent

\* the generator goes on to `g` and yields `e` (NoEvent: it awaits again)
Yields(g, e) ==
    /\ generator' = [generator EXCEPT ![chat.turn] =
                        IF e.type \in {"content", "tool_calls", "done", "error"}
                        THEN [g EXCEPT !.events =
                                 Append(@, [type |-> e.type, text |-> e.content])]
                        ELSE g]
    /\ yielded' = e

\* streamResponse from "Process tool calls if any" on: tool_calls if there
\* are any, else done
ToolCallsOrDone(g) ==
    IF g.toolCalls # << >>
    THEN Yields([g EXCEPT !.pc = "done"], toolCallsEvent(g.toolCalls))
    ELSE Yields([g EXCEPT !.pc = "finished"], doneEvent(g.fullResponse))

\* a bug: the catch yields no event, the generator just ends
Fails_Silent(g) == Yields([g EXCEPT !.pc = "finished"], NoEvent)

\* the catch of streamResponse: the error event, then the end
Fails(g) == Yields([g EXCEPT !.pc = "finished"], errorEvent)

\* the first next(): streamResponse up to the await of the backend's call
StreamStarts ==
    /\ pulled
    /\ current.pc = "created"
    /\ Yields([current EXCEPT !.pc = "connect", !.messages = conversationHistory],
              NoEvent)
    /\ UNCHANGED << provider, chat, conversationHistory, saved, seen >>
    /\ UNCHANGED << clientVars, transportVars, serviceVars >>

\* the backend's call answers (messages.stream, generateContentStream,
\* ai.run), or throws; Cloudflare's answer may be no stream but the whole
\* response
StreamConnects ==
    /\ pulled
    /\ current.pc = "connect"
    /\ \/ Fails(current)
       \/ /\ provider = "claude"
          /\ Yields([current EXCEPT !.pc = "final"], NoEvent)
       \/ /\ provider \in {"gemini", "cloudflare"}
          /\ Yields([current EXCEPT !.pc = "iterate"], NoEvent)
       \/ /\ provider = "cloudflare"
          /\ \E content \in WholeTexts :
                Yields([current EXCEPT !.pc = "tail", !.fullResponse = content],
                       contentEvent(content))
    /\ UNCHANGED << provider, chat, conversationHistory, saved, seen >>
    /\ UNCHANGED << clientVars, transportVars, serviceVars >>

\* Claude: finalMessage() answers after the text and contentBlock callbacks
\* ran, or throws
ClaudeFinalMessage ==
    /\ pulled
    /\ current.pc = "final"
    /\ \/ Fails(current)
       \/ \E texts \in DeltasOffered(MostChunks(chat.turn)),
             calls \in SeqsUpTo(ToolCalls, MostCalls(chat.turn)) :
            LET g == [current EXCEPT
                        !.fullResponse = Concat(texts),
                        !.toolCalls = [i \in 1..Len(calls) |-> functionCall(calls[i])],
                        !.chunks = Len(texts)]
            IN  /\ \A i \in 1..Len(calls) : calls[i] \in CallsOffered(chat.turn, i)
                /\ IF g.fullResponse # << >>
                   THEN Yields([g EXCEPT !.pc = "tail"], contentEvent(g.fullResponse))
                   ELSE ToolCallsOrDone(g)
    /\ UNCHANGED << provider, chat, conversationHistory, saved, seen >>
    /\ UNCHANGED << clientVars, transportVars, serviceVars >>

\* Gemini, Cloudflare: the next chunk of the backend's stream arrives, the
\* stream ends, or iterating it fails
ChunkArrives ==
    /\ pulled
    /\ current.pc = "iterate"
    /\ \/ /\ current.chunks < MostChunks(chat.turn)
          /\ \E text \in ChunkTexts(current.chunks + 1) :
                LET g == [current EXCEPT !.chunks = @ + 1,
                                         !.fullResponse = @ \o text]
                IN  Yields(g, IF text # << >> THEN contentEvent(text) ELSE NoEvent)
       \/ /\ provider = "gemini"
          /\ Len(current.toolCalls) < MostCalls(chat.turn)
          /\ \E call \in CallsOffered(chat.turn, Len(current.toolCalls) + 1) :
                Yields([current EXCEPT !.toolCalls = Append(@, functionCall(call))],
                       NoEvent)
       \/ ToolCallsOrDone(current)
       \/ /\ provider = "gemini"
          /\ \E text \in WholeTexts :
                IF text # << >>
                THEN Yields([current EXCEPT !.pc = "tail", !.fullResponse = text,
                                            !.fallback = "text"],
                            contentEvent(text))
                ELSE ToolCallsOrDone([current EXCEPT !.fallback = "absent"])
       \/ /\ provider = "cloudflare"
          /\ Fails(current)
    /\ UNCHANGED << provider, chat, conversationHistory, saved, seen >>
    /\ UNCHANGED << clientVars, transportVars, serviceVars >>

\* next() on a generator suspended at a yield after the last chunk
StreamResumes ==
    /\ pulled
    /\ \/ /\ current.pc = "tail"
          /\ ToolCallsOrDone(current)
       \/ /\ current.pc = "done"
          /\ Yields([current EXCEPT !.pc = "finished"],
                    doneEvent(current.fullResponse))
       \/ /\ current.pc = "finished"
          /\ Yields(Returned, returnEvent)
    /\ UNCHANGED << provider, chat, conversationHistory, saved, seen >>
    /\ UNCHANGED << clientVars, transportVars, serviceVars >>

\* ---------------------------------------------------- handleChatSession

UserMessage == [role |-> "user", content |-> << "q" >>]

DefaultContext == "User is looking for products"

\* toolName === 'search_shop_catalog' && !toolArgs.context: the default is
\* set for a context that is absent or empty
injectDefaults(toolName, toolArgs) ==
    IF toolName = "search_shop_catalog" /\ toolArgs.context \in {Absent, ""}
    THEN [toolArgs EXCEPT !.context = DefaultContext]
    ELSE toolArgs

\* a bug: the calls of a batch are taken last first
callAt_Reversed(batch, k) == batch[Len(batch) + 1 - k]

\* for (const toolCall of chunk.tool_calls): the k-th call
callAt(batch, k) == batch[k]

\* a bug: the model is not asked again after a batch
reenter_Never(batch) == FALSE

\* chunk.tool_calls && chunk.tool_calls.length > 0
reenter(batch) == Len(batch) > 0

\* aiService.streamResponse(...): a generator, not started
Created == [NoGenerator EXCEPT !.pc = "created"]

\* break, or an exception, in a for await: the generator is closed
Closed(g) == IF g.pc = "none" THEN g ELSE Returned

\* the entry toolService.handleToolSuccess / handleToolError appends to
\* conversationHistory for the call at hand
toolEntry(c) ==
    [role |-> "user", toolName |-> c.toolName, arguments |-> c.arguments,
     result |-> IF c.response.error THEN "error" ELSE "success",
     type |-> c.response.type]

\* the tool_calls loop before its k-th call, with the session at c and sn:
\* the call is made; or, after the last call, the continuation's generator
\* is made and its first event awaited
LoopHead(c, sn, k) ==
    IF k <= Len(c.batch)
    THEN LET toolCall == callAt(c.batch, k)
             toolName == toolCall.function.name
             toolArgs == injectDefaults(toolName, parse(toolCall.function.arguments))
         IN  /\ chat' = [c EXCEPT !.pc = "callTool", !.k = k,
                                  !.toolName = toolName, !.arguments = toolArgs,
                                  !.response = NoResponse]
             /\ seen' = [sn EXCEPT !.steps = << "inject", "tool_use", "callTool" >>,
                                   !.notified = toolArgs, !.inFlight = @ + 1]
             /\ UNCHANGED generator
    ELSE IF reenter(c.batch)
    THEN /\ chat' = [c EXCEPT !.pc = "pull", !.turn = "continuation"]
         /\ seen' = [sn EXCEPT !.batches = @ + 1, !.continuations = @ + 1,
                               !.forwarded = << >>]
         /\ generator' = [generator EXCEPT !["continuation"] = Created]
    ELSE /\ chat' = [c EXCEPT !.pc = "pull"]
         /\ seen' = [sn EXCEPT !.batches = @ + (IF Len(c.batch) > 0 THEN 1 ELSE 0)]
         /\ UNCHANGED generator

\* saveMessage(conversationId, 'user', userMessage) answers, or throws out
\* of handleChatSession
SaveUserEnds ==
    /\ chat.pc = "saveUser"
    /\ \E ok \in BOOLEAN :
         IF ok
         THEN /\ saved' = Append(saved, UserMessage)
              /\ chat' = [chat EXCEPT !.pc = "history"]
              /\ UNCHANGED seen
         ELSE /\ chat' = [chat EXCEPT !.pc = "thrown"]
              /\ seen' = [seen EXCEPT !.failed = TRUE]
              /\ UNCHANGED saved
    /\ UNCHANGED << provider, generator, yielded, conversationHistory >>
    /\ UNCHANGED << clientVars, transportVars, serviceVars >>

\* getConversationHistory answers with the stored messages; the first
\* turn's generator is made and its first event awaited; or it throws out
\* of handleChatSession
HistoryEnds ==
    /\ chat.pc = "history"
    /\ \E ok \in BOOLEAN :
         IF ok
         THEN /\ conversationHistory' = saved
              /\ generator' = [generator EXCEPT !["initial"] = Created]
              /\ chat' = [chat EXCEPT !.pc = "pull", !.turn = "initial"]
              /\ UNCHANGED seen
         ELSE /\ chat' = [chat EXCEPT !.pc = "thrown"]
              /\ seen' = [seen EXCEPT !.failed = TRUE]
              /\ UNCHANGED << conversationHistory, generator >>
    /\ UNCHANGED << provider, yielded, saved >>
    /\ UNCHANGED << clientVars, transportVars, serviceVars >>

\* the session ends: the error or end of the first turn, or the catch; the
\* end_turn message is sent
Ended(c) == [c EXCEPT !.pc = "ended", !.turn = "initial"]

\* the continuation's loop is left: the first turn's next event is awaited
BackToFirstTurn(c) == [c EXCEPT !.pc = "pull", !.turn = "initial"]

\* the first turn's generator yields: the body of the outer for await
HandleEvent ==
    /\ chat.pc = "pull"
    /\ chat.turn = "initial"
    /\ yielded # NoEvent
    /\ yielded' = NoEvent
    /\ LET sn == [seen EXCEPT !.kinds = @ \cup {yielded.type}]
       IN  CASE yielded.type = "content" ->
                  /\ seen' = [sn EXCEPT !.forwarded = @ \o yielded.content]
                  /\ UNCHANGED << chat, generator >>
             [] yielded.type = "tool_calls" ->
                  LoopHead([chat EXCEPT !.batch = yielded.tool_calls], sn, 1)
             [] yielded.type = "done" ->
                  /\ chat' = [chat EXCEPT !.conversationComplete = TRUE,
                                  !.final = yielded.content,
                                  !.pc = IF yielded.hasContent /\ yielded.content # << >>
                                         THEN "saveAssistant" ELSE "pull"]
                  /\ seen' = sn
                  /\ UNCHANGED generator
             [] yielded.type = "error" ->
                  /\ chat' = Ended(chat)
                  /\ seen' = [sn EXCEPT !.error = TRUE, !.endTurns = @ + 1]
                  /\ generator' = [generator EXCEPT !["initial"] = Closed(@)]
             [] OTHER ->
                  /\ chat' = Ended(chat)
                  /\ seen' = [seen EXCEPT !.endTurns = @ + 1]
                  /\ UNCHANGED generator
    /\ UNCHANGED << provider, conversationHistory, saved >>
    /\ UNCHANGED << clientVars, transportVars, serviceVars >>

\* the continuation's generator yields: the body of the inner for await
HandleContinueEvent ==
    /\ chat.pc = "pull"
    /\ chat.turn = "continuation"
    /\ yielded # NoEvent
    /\ yielded' = NoEvent
    /\ CASE yielded.type = "content" ->
               /\ seen' = [seen EXCEPT !.forwarded = @ \o yielded.content]
               /\ UNCHANGED << chat, generator >>
          [] yielded.type = "done" ->
               IF yielded.hasContent /\ yielded.content # << >>
               THEN /\ chat' = [chat EXCEPT !.conversationComplete = TRUE,
                                    !.final = yielded.content,
                                    !.pc = "saveAssistant"]
                    /\ UNCHANGED << seen, generator >>
               ELSE /\ chat' = BackToFirstTurn(
                                  [chat EXCEPT !.conversationComplete = TRUE])
                    /\ generator' = [generator EXCEPT !["continuation"] = Closed(@)]
                    /\ UNCHANGED seen
          [] yielded.type = "error" ->
               /\ chat' = BackToFirstTurn(chat)
               /\ generator' = [generator EXCEPT !["continuation"] = Closed(@)]
               /\ seen' = [seen EXCEPT !.error = TRUE]
          [] yielded.type = "return" ->
               /\ chat' = BackToFirstTurn(chat)
               /\ generator' = [generator EXCEPT !["continuation"] = Closed(@)]
               /\ UNCHANGED seen
          [] OTHER ->
               UNCHANGED << chat, seen, generator >>
    /\ UNCHANGED << provider, conversationHistory, saved >>
    /\ UNCHANGED << clientVars, transportVars, serviceVars >>

\* mcpClient.callTool(toolName, toolArgs) answers: handleToolError or
\* handleToolSuccess is called
CallToolEnds ==
    /\ chat.pc = "callTool"
    /\ \E response \in ToolResponses :
         chat' = [chat EXCEPT !.pc = "handle", !.response = response]
    /\ seen' = [seen EXCEPT !.inFlight = @ - 1]
    /\ UNCHANGED << provider, generator, yielded, conversationHistory, saved >>
    /\ UNCHANGED << clientVars, transportVars, serviceVars >>

\* handleToolError / handleToolSuccess answers, having appended the entry
\* of the call; new_message is sent; the loop goes on
HandleToolEnds ==
    /\ chat.pc = "handle"
    /\ conversationHistory' = Append(conversationHistory, toolEntry(chat))
    /\ LoopHead(chat, [seen EXCEPT !.steps = @ \o << "append", "new_message" >>],
                chat.k + 1)
    /\ UNCHANGED << provider, yielded, saved >>
    /\ UNCHANGED << clientVars, transportVars, serviceVars >>

\* saveMessage(conversationId, 'assistant', content) answers, or throws
\* into the catch of the session
SaveAssistantEnds ==
    /\ chat.pc = "saveAssistant"
    /\ \E ok \in BOOLEAN :
         IF ok
         THEN /\ saved' = Append(saved, [role |-> "assistant", content |-> chat.final])
              /\ chat' = BackToFirstTurn(chat)
              /\ generator' = [generator EXCEPT !["continuation"] = Closed(@)]
              /\ UNCHANGED seen
         ELSE /\ chat' = Ended(chat)
              /\ generator' = [turn \in {"initial", "continuation"} |->
                                  Closed(generator[turn])]
              /\ seen' = [seen EXCEPT !.failed = TRUE, !.endTurns = @ + 1]
              /\ UNCHANGED saved
    /\ UNCHANGED << provider, yielded, conversationHistory >>
    /\ UNCHANGED << clientVars, transportVars, serviceVars >>

\* --------------------------------------------------- cleanSchemaForGemini

supportedProps ==
    { "type", "description", "properties", "required", "items", "enum",
      "minimum", "maximum", "minLength", "maxLength", "pattern", "default",
      "title", "anyOf", "oneOf", "allOf" }

excludedProps ==
    { "additional_properties", "additionalProperties", "unevaluatedProperties",
      "$schema", "$id", "format" }

RECURSIVE cleanSchemaForGemini(_)
\* cleanSchemaForGemini(schema): what is no object (an array too) is
\* returned as it is; of an object the supported keys are copied, the
\* schemas under properties, items and anyOf/oneOf/allOf cleaned
cleanSchemaForGemini(json) ==
    IF json.kind # "object" THEN json
    ELSE JObject(
           [ key \in { k \in DOMAIN json.fields :
                         k \notin excludedProps /\ k \in supportedProps } |->
               LET value == json.fields[key]
               IN  IF key = "properties" /\ value.kind = "object"
                   THEN JObject([ propKey \in DOMAIN value.fields |->
                                    cleanSchemaForGemini(value.fields[propKey]) ])
                   ELSE IF key = "items" THEN cleanSchemaForGemini(value)
                   ELSE IF key \in {"anyOf", "oneOf", "allOf"} /\ value.kind = "array"
                   THEN JArray([ i \in 1..Len(value.elems) |->
                                   cleanSchemaForGemini(value.elems[i]) ])
                   ELSE value ])

\* cleanSchemaForGemini is called with the schema of a tool and returns
CleanSchema ==
    /\ schema # NoJson
    /\ cleaned = NoJson
    /\ cleaned' = cleanSchemaForGemini(schema)
    /\ UNCHANGED << schema, env, tests, appVars >>
    /\ UNCHANGED << clientVars, transportVars, chatVars >>

\* a tool's input schema is about to be converted for Gemini
InitSchema ==
    /\ Constructed
    /\ options = DefaultOptions
    /\ NoChatSession
    /\ schema \in Schemas(MaxDepth)
    /\ cleaned = NoJson
    /\ env = Undefined
    /\ tests = NoTests
    /\ NoAppCalls

\* ----------------------------------------------------------- testProvider

\* process.env.AI_PROVIDER when the provider tests begin: not set, or a
\* provider
EnvValues == {Undefined, "claude"}

\* if (originalProvider) process.env.AI_PROVIDER = originalProvider;
\* else delete process.env.AI_PROVIDER
restored(originalProvider) ==
    IF originalProvider \notin {Undefined, ""} THEN originalProvider ELSE Undefined

\* testProvider(provider) up to its await: the flag is saved and set, the
\* service is created and asked for a response; or createAIService throws
\* and the catch restores the flag and returns the failure
TestProviderStart(id, testedProvider) ==
    /\ tests.calls[id].pc = "idle"
    /\ \E created \in BOOLEAN :
         LET originalProvider == env
             call == [NoTest EXCEPT !.provider = testedProvider,
                                    !.originalProvider = originalProvider]
         IN  /\ env' = IF created THEN testedProvider ELSE restored(originalProvider)
             /\ tests' = [tests EXCEPT
                            !.calls[id] = [call EXCEPT !.pc = IF created THEN "generate"
                                                             ELSE "returned"],
                            !.overlapped = @ \/ \E other \in 1..MaxTests :
                                                  tests.calls[other].pc = "generate"]
    /\ UNCHANGED << schema, cleaned, appVars >>
    /\ UNCHANGED << clientVars, transportVars, chatVars >>

\* service.generateResponse answers or throws: either way the flag is set
\* to the call's originalProvider and the call returns
TestProviderEnds(id) ==
    /\ tests.calls[id].pc = "generate"
    /\ env' = restored(tests.calls[id].originalProvider)
    /\ \E success \in BOOLEAN :
         tests' = [tests EXCEPT !.calls[id].pc = "returned",
                                !.calls[id].success = success]
    /\ UNCHANGED << schema, cleaned, appVars >>
    /\ UNCHANGED << clientVars, transportVars, chatVars >>

\* the process before any testProvider call
InitProviders ==
    /\ Constructed
    /\ options = DefaultOptions
    /\ NoChatSession
    /\ schema = NoJson
    /\ cleaned = NoJson
    /\ env \in EnvValues
    /\ tests = [NoTests EXCEPT !.before = env]
    /\ NoAppCalls

\* ---------------------------------------------------------- specifications

\* the connect operations and disconnect, in any interleaving
NextConnect ==
    \/ ConnectStorefrontStart
    \/ ConnectCustomerStart
    \/ ConnectAllStart
    \/ \E via \in {"direct", "all"} : StorefrontRequestEnds(via)
    \/ \E via \in {"direct", "all"} : CustomerTokenEnds(via)
    \/ \E via \in {"direct", "all"} : CustomerRequestEnds(via)
    \/ Disconnect

SpecConnect == Init /\ [][NextConnect]_vars

\* the client as the chat handler uses it: connectToAllServers, then
\* callTool; and disconnect
NextCall ==
    \/ ConnectAllStart
    \/ StorefrontRequestEnds("all")
    \/ CustomerTokenEnds("all")
    \/ CustomerRequestEnds("all")
    \/ Disconnect
    \/ \E toolName \in ToolNames : CallToolStart(toolName)
    \/ CallTokenEnds
    \/ CallRequestEnds
    \/ CallAuthUrlEnds

SpecCall == Init /\ [][NextCall]_vars

\* the client with callbacks registered and removed: connectToAllServers,
\* addEventListener, removeEventListener and disconnect
NextListeners ==
    \/ ConnectAllStart
    \/ StorefrontRequestEnds("all")
    \/ CustomerTokenEnds("all")
    \/ CustomerRequestEnds("all")
    \/ \E event \in EventNames, callback \in Callbacks :
          AddEventListener(event, callback)
    \/ \E event \in EventNames, callback \in Callbacks :
          RemoveEventListener(event, callback)
    \/ Disconnect

SpecListeners == Init /\ [][NextListeners]_vars

\* one request after another through _makeJsonRpcRequestWithRetry, attempt by
\* attempt
NextTransport ==
    \/ RequestStart
    \/ TimerFires
    \/ FetchEnds
    \/ TextEnds
    \/ JsonEnds
    \/ BackoffEnds

SpecTransport == InitTransport /\ [][NextTransport]_vars

\* one chat request from the saving of the user's message on, with each of
\* the backends
NextChat ==
    \/ SaveUserEnds
    \/ HistoryEnds
    \/ StreamStarts
    \/ StreamConnects
    \/ ClaudeFinalMessage
    \/ ChunkArrives
    \/ StreamResumes
    \/ HandleEvent
    \/ HandleContinueEvent
    \/ CallToolEnds
    \/ HandleToolEnds
    \/ SaveAssistantEnds

SpecChat == InitChat /\ [][NextChat]_vars

\* the schemas of tools, each cleaned for Gemini
NextSchema == CleanSchema

SpecSchema == InitSchema /\ [][NextSchema]_vars

\* testProvider calls, overlapping or one after the other
NextProviders ==
    \/ \E id \in 1..MaxTests, testedProvider \in Providers :
          TestProviderStart(id, testedProvider)
    \/ \E id \in 1..MaxTests : TestProviderEnds(id)

SpecProviders == InitProviders /\ [][NextProviders]_vars

\* ------------------------------------------------------- McpChatInterface

\* what a useMcp hook holds as tools: undefined, or the list of its server
HookTools(server) ==
    { [defined |-> TRUE, tools |-> l] : l \in Listings(server) } \cup {NoHookTools}

\* mcp.tools?.find(tool => tool.name === toolName)
found(mcp, toolName) == mcp.defined /\ HasTool(mcp.tools, toolName)

\* the hook callTool of McpChatInterface calls: the storefront hook is asked
\* first
interfaceRoute(toolName, storefront, customer) ==
    IF found(storefront, toolName) THEN "storefront"
    ELSE IF found(customer, toolName) THEN "customer"
    ELSE "none"

\* the hook's tools change and the component renders again
HookUpdates(server) ==
    /\ \E t \in HookTools(server) :
         IF server = "storefront"
         THEN /\ t # storefrontMcp
              /\ storefrontMcp' = t
              /\ UNCHANGED customerMcp
         ELSE /\ t # customerMcp
              /\ customerMcp' = t
              /\ UNCHANGED storefrontMcp
    /\ UNCHANGED uiCall
    /\ UNCHANGED << clientVars, transportVars, chatVars, schema, cleaned, env, tests,
                    dbVars >>

\* callTool(toolName, toolArgs) of the component up to its await: the call
\* of the hook it chose; with no hook chosen it throws, and its catch returns
\* the error
McpCallToolStart(toolName) ==
    /\ uiCall.pc \in {"idle", "returned"}
    /\ LET route == interfaceRoute(toolName, storefrontMcp, customerMcp)
       IN  uiCall' = [pc |-> IF route = "none" THEN "returned" ELSE "await",
                      toolName |-> toolName, route |-> route,
                      storefrontMcp |-> storefrontMcp, customerMcp |-> customerMcp,
                      result |-> IF route = "none" THEN "tool_call_error" ELSE "none"]
    /\ UNCHANGED << storefrontMcp, customerMcp >>
    /\ UNCHANGED << clientVars, transportVars, chatVars, schema, cleaned, env, tests,
                    dbVars >>

\* the hook's callTool answers, or throws and the catch returns the error
McpCallToolEnds ==
    /\ uiCall.pc = "await"
    /\ \E result \in {"success", "tool_call_error"} :
         uiCall' = [uiCall EXCEPT !.pc = "returned", !.result = result]
    /\ UNCHANGED << storefrontMcp, customerMcp >>
    /\ UNCHANGED << clientVars, transportVars, chatVars, schema, cleaned, env, tests,
                    dbVars >>

\* the component rendered, the hooks holding any tools
InitInterface ==
    /\ Constructed
    /\ options = DefaultOptions
    /\ NoChatSession
    /\ schema = NoJson
    /\ cleaned = NoJson
    /\ env = Undefined
    /\ tests = NoTests
    /\ storefrontMcp \in HookTools("storefront")
    /\ customerMcp \in HookTools("customer")
    /\ uiCall = NoUiCall
    /\ NoDbCalls

\* the chat component: its hooks' tools changing and its callTool
NextInterface ==
    \/ \E server \in Servers : HookUpdates(server)
    \/ \E toolName \in ToolNames : McpCallToolStart(toolName)
    \/ McpCallToolEnds

SpecInterface == InitInterface /\ [][NextInterface]_vars

\* ----------------------------------------------------------- emit

\* the lists of callbacks of up to n entries
CallbackLists(n) == UNION { [1..k -> Callbacks] : k \in 0..n }

\* the client with callbacks registered for one of its three events
InitEmit ==
    /\ ConstructedFields
    /\ \E event \in DOMAIN NoListeners, list \in CallbackLists(MaxCallbacks) :
          eventListeners = [NoListeners EXCEPT ![event] = list]
    /\ options = DefaultOptions
    /\ NoChatSession
    /\ NoServiceCalls

\* connects to the storefront server and disconnect, with callbacks
\* registered
NextEmit ==
    \/ ConnectStorefrontStart
    \/ StorefrontRequestEnds("direct")
    \/ Disconnect

SpecEmit == InitEmit /\ [][NextEmit]_vars

\* ----------------------------------------------------------------- initDB

\* the D1 bindings initDB is called with: none, or a database
Databases == {Null, "d1", "d2"}

\* initDB(db) up to its await of setupSchema, or to its return
InitDBStart(id, db) ==
    /\ inits.calls[id].pc = "idle"
    /\ IF db = Null
       THEN /\ inits' = [inits EXCEPT !.calls[id] = [pc |-> "returned", result |-> FALSE]]
            /\ UNCHANGED << dbInstance, isInitializing >>
       ELSE /\ dbInstance' = db
            /\ IF isInitializing \/ isInitialized
               THEN /\ inits' = [inits EXCEPT !.calls[id] =
                                    [pc |-> "returned", result |-> TRUE]]
                    /\ UNCHANGED isInitializing
               ELSE /\ isInitializing' = TRUE
                    /\ inits' = [inits EXCEPT !.calls[id].pc = "setup"]
    /\ UNCHANGED << isInitialized, codeVerifier, lookups >>
    /\ UNCHANGED << clientVars, transportVars, chatVars, schema, cleaned, env, tests,
                    storefrontMcp, customerMcp, uiCall >>

\* setupSchema returns: true when the tables were made and CustomerToken was
\* found, false when a statement failed or the table is missing; initDB
\* marks the module and returns the result
SetupSchemaEnds(id) ==
    /\ inits.calls[id].pc = "setup"
    /\ \E result \in BOOLEAN :
         inits' = [inits EXCEPT !.calls[id] = [pc |-> "returned", result |-> result],
                                !.setupOk = @ \/ result]
    /\ isInitialized' = TRUE
    /\ isInitializing' = FALSE
    /\ UNCHANGED << dbInstance, codeVerifier, lookups >>
    /\ UNCHANGED << clientVars, transportVars, chatVars, schema, cleaned, env, tests,
                    storefrontMcp, customerMcp, uiCall >>

\* initDB calls, overlapping or one after the other
NextInitDB ==
    \/ \E id \in 1..MaxInits, db \in Databases : InitDBStart(id, db)
    \/ \E id \in 1..MaxInits : SetupSchemaEnds(id)

SpecInitDB == Init /\ [][NextInitDB]_vars

\* ------------------------------------------------------- getCodeVerifier

\* the row of the state, as findFirst returns it
Verifier == "verifier1"

\* storeCodeVerifier(state, verifier): the row is inserted; one verifier is
\* stored for the state, before the calls that fetch it
StoreCodeVerifier ==
    /\ ~codeVerifier.stored
    /\ \A id \in 1..MaxLookups : lookups[id].pc = "idle"
    /\ codeVerifier' = [stored |-> TRUE, expired |-> FALSE]
    /\ UNCHANGED << dbInstance, isInitializing, isInitialized, inits, lookups >>
    /\ UNCHANGED << clientVars, transportVars, chatVars, schema, cleaned, env, tests,
                    storefrontMcp, customerMcp, uiCall >>

\* ten minutes pass: the row's expiresAt is over
VerifierExpires ==
    /\ codeVerifier.stored
    /\ ~codeVerifier.expired
    /\ codeVerifier' = [codeVerifier EXCEPT !.expired = TRUE]
    /\ UNCHANGED << dbInstance, isInitializing, isInitialized, inits, lookups >>
    /\ UNCHANGED << clientVars, transportVars, chatVars, schema, cleaned, env, tests,
                    storefrontMcp, customerMcp, uiCall >>

\* getCodeVerifier(state) up to the await of findFirst
GetCodeVerifierStart(id) ==
    /\ lookups[id].pc = "idle"
    /\ lookups' = [lookups EXCEPT ![id].pc = "findFirst"]
    /\ UNCHANGED << dbInstance, isInitializing, isInitialized, inits, codeVerifier >>
    /\ UNCHANGED << clientVars, transportVars, chatVars, schema, cleaned, env, tests,
                    storefrontMcp, customerMcp, uiCall >>

\* findFirst answers: the row WHERE state = ? AND expiresAt > now, or null
\* (also when the query fails); with a row the delete is sent, without one
\* null is returned
FindFirstEnds(id) ==
    /\ lookups[id].pc = "findFirst"
    /\ \E ok \in BOOLEAN :
         LET verifier == IF ok /\ codeVerifier.stored /\ ~codeVerifier.expired
                         THEN Verifier ELSE Null
         IN  lookups' = [lookups EXCEPT ![id] =
                            IF verifier # Null
                            THEN [pc |-> "delete", verifier |-> verifier, result |-> Null]
                            ELSE [pc |-> "returned", verifier |-> Null, result |-> Null]]
    /\ UNCHANGED << dbInstance, isInitializing, isInitialized, inits, codeVerifier >>
    /\ UNCHANGED << clientVars, transportVars, chatVars, schema, cleaned, env, tests,
                    storefrontMcp, customerMcp, uiCall >>

\* delete answers: DELETE ... WHERE id = ? removes the row if it is there
\* and answers also when it is gone, and the verifier is returned; or it
\* throws and the catch returns null
DeleteEnds(id) ==
    /\ lookups[id].pc = "delete"
    /\ \E ok \in BOOLEAN :
         IF ok
         THEN /\ codeVerifier' = NoRow
              /\ lookups' = [lookups EXCEPT ![id].pc = "returned",
                                            ![id].result = lookups[id].verifier]
         ELSE /\ lookups' = [lookups EXCEPT ![id].pc = "returned"]
              /\ UNCHANGED codeVerifier
    /\ UNCHANGED << dbInstance, isInitializing, isInitialized, inits >>
    /\ UNCHANGED << clientVars, transportVars, chatVars, schema, cleaned, env, tests,
                    storefrontMcp, customerMcp, uiCall >>

\* one verifier stored for a state, and getCodeVerifier calls for that state
NextVerifier ==
    \/ StoreCodeVerifier
    \/ VerifierExpires
    \/ \E id \in 1..MaxLookups : GetCodeVerifierStart(id)
    \/ \E id \in 1..MaxLookups : FindFirstEnds(id)
    \/ \E id \in 1..MaxLookups : DeleteEnds(id)

SpecVerifier == Init /\ [][NextVerifier]_vars

\* ------------------------------------------------------------------ claims

\* C1: a name in both the customer and the storefront list (when callTool is
\* called) has its tools/call sent to the customer endpoint and never to the
\* storefront endpoint; a name in the storefront list only is sent to the
\* storefront endpoint.
C1_CustomerListWinsRouting ==
    /\ callTask.pc # "idle" =>
         /\ callTask.inCustomer => callTask.route = "customer"
         /\ (callTask.inStorefront /\ ~callTask.inCustomer) =>
               callTask.route = "storefront"
    /\ (called.toolName # "none" /\ called.inCustomer /\ called.inStorefront) =>
         called.sent = {"customerMcpEndpoint"}
    /\ (called.toolName # "none" /\ called.inStorefront /\ ~called.inCustomer) =>
         called.sent = {"storefrontMcpEndpoint"}

C1_Witness ==
    /\ called.inCustomer
    /\ called.inStorefront
    /\ called.sent = {"customerMcpEndpoint"}

\* C2 as stated: a tools/call to the customer endpoint that ends with HTTP 401
\* makes callCustomerTool return (not raise) auth_required with the URL that
\* generateAuthUrl(conversationId, shopId) gave.
C2_Original ==
    (called.route = "customer" /\ called.status = "http401") =>
        /\ called.inner.kind = "return"
        /\ called.authArgs = << conversationId, ShopId >>
        /\ called.inner.type = "auth_required"
        /\ called.inner.data = called.authUrl

\* C2 amended: after the 401 callCustomerTool calls
\* generateAuthUrl(conversationId, shopId) and returns, never raises:
\* auth_required with the URL when the generator gives one, internal_error
\* when the generator itself fails.
C2_AuthRequiredOn401 ==
    (called.route = "customer" /\ called.status = "http401") =>
        /\ called.inner.kind = "return"
        /\ called.authArgs = << conversationId, ShopId >>
        /\ called.authUrl # "genfail" =>
              /\ called.inner.type = "auth_required"
              /\ called.inner.data = called.authUrl
        /\ called.authUrl = "genfail" => called.inner.type = "internal_error"

C2_Witness ==
    /\ called.route = "customer"
    /\ called.status = "http401"
    /\ called.result.type = "auth_required"
    /\ called.result.data = "url1"

\* C3: callTool never throws: however the request, the token lookup and the
\* authorization-link generator end, it returns a success payload or a
\* structured error of type tool_not_found, auth_required or internal_error.
C3_CallToolNeverThrows ==
    called.toolName # "none" =>
        /\ called.result.kind = "return"
        /\ called.result.type \in
              {"success", "tool_not_found", "auth_required", "internal_error"}

C3_Witness ==
    /\ called.status = "http401"
    /\ called.authUrl = "genfail"
    /\ called.result.type = "internal_error"

\* callTool(toolName) is called in this step
CallToolCalled(toolName) ==
    /\ callTask.pc = "idle"
    /\ \/ callTask'.toolName = toolName
       \/ called'.toolName = toolName

\* C4: callTool with a name in neither list answers tool_not_found at once,
\* sends no request and changes no field of the client.
C4_ToolNotFound ==
    [][ \A toolName \in ToolNames :
          ( /\ CallToolCalled(toolName)
            /\ ~HasTool(customerTools, toolName)
            /\ ~HasTool(storefrontTools, toolName) )
          => /\ called'.result = [kind |-> "return", type |-> "tool_not_found",
                                  data |-> toolName]
             /\ called'.sent = {}
             /\ callTask' = IdleCall
             /\ UNCHANGED clientFields ]_vars

\* tool_not_found on a client that was disconnected after it had connected
C4_Witness ==
    /\ called.result.type = "tool_not_found"
    /\ called.sent = {}
    /\ history = "other"
    /\ \A s \in Servers : connectionState[s] = "disconnected"

\* C5 as stated, for a connectToAllServers call during which no other call
\* ran: when exactly one server's connect fails, the result holds the other
\* server's freshly listed tools, [] for the failed server, and totalTools is
\* the number of tools of the succeeding server only.
C5_TotalOfSucceedingOnly ==
    LET all == ended.all
    IN  (all.returned /\ all.alone) =>
          /\ (all.sf.set # "ready" /\ all.cu.set = "ready") =>
                /\ all.result.storefront = << >>
                /\ all.result.customer = customerTools
                /\ all.result.totalTools = Len(all.result.customer)
          /\ (all.sf.set = "ready" /\ all.cu.set # "ready") =>
                /\ all.result.customer = << >>
                /\ all.result.storefront = storefrontTools
                /\ all.result.totalTools = Len(all.result.storefront)

\* C6: on a fresh client, connectToAllServers where the storefront lists
\* [A, B] and the customer tools/list request fails ends with the merged list
\* [A, B], storefront ready and customer failed, whichever connect ends first.
C6_ScenarioC ==
    ( /\ ended.all.returned
      /\ history = "oneConnectAll"
      /\ listed["storefront"] = Listed(SubSeq(StorefrontCatalog, 1, 2))
      /\ ended.all.cu.err # NoError )
    => /\ tools = << [name |-> "A", description |-> "dA", input_schema |-> "sA"],
                     [name |-> "B", description |-> "dB", input_schema |-> "sB"] >>
       /\ connectionState["storefront"] = "ready"
       /\ connectionState["customer"] = "failed"

\* the customer connect failed first, the storefront connect ended the call
C6_Witness ==
    /\ ended.all.returned
    /\ history = "oneConnectAll"
    /\ ended.call = "connectToStorefrontServer"
    /\ listed["storefront"] = Listed(SubSeq(StorefrontCatalog, 1, 2))
    /\ ended.all.cu.err # NoError
    /\ Len(tools) = 2

\* the server of a connect call
ServerOf(call) ==
    IF call = "connectToStorefrontServer" THEN "storefront" ELSE "customer"

\* C7 as stated: a connect call to either server whose tools/list request
\* fails does not throw: it sets the server's state to failed and returns [].
C7_Original ==
    (ended.call # "none" /\ ended.err # NoError) =>
        /\ ended.kind = "return"
        /\ ended.value = << >>
        /\ connectionState[ServerOf(ended.call)] = "failed"

\* C7 amended: connectToCustomerServer does not throw when its tools/list
\* request fails: it sets the state failed and returns [].
\* connectToStorefrontServer sets the state failed and throws the error
\* again; connectToAllServers takes the rejection and reports [] for the
\* storefront.
C7_ConnectFailure ==
    /\ (ended.call = "connectToCustomerServer" /\ ended.err # NoError) =>
          /\ ended.kind = "return"
          /\ ended.value = << >>
          /\ connectionState["customer"] = "failed"
    /\ (ended.call = "connectToStorefrontServer" /\ ended.err # NoError) =>
          /\ ended.kind = "throw"
          /\ connectionState["storefront"] = "failed"
          /\ ended.all.returned => ended.all.result.storefront = << >>
    /\ ended.all.returned =>
          /\ ended.all.cu.kind = "return"
          /\ ended.all.sf.kind = "throw" => ended.all.result.storefront = << >>

C7_Witness ==
    /\ ended.call = "connectToCustomerServer"
    /\ ended.err # NoError
    /\ ended.all.returned
    /\ ended.all.sf.kind = "throw"

\* C8 as stated: when connectToCustomerServer's tools/list request fails with
\* HTTP 401 the customer state becomes requires-auth; it becomes failed only
\* for the other failures.
C8_RequiresAuthOn401 ==
    (ended.call = "connectToCustomerServer" /\ ended.err # NoError) =>
        connectionState["customer"] =
            IF ended.err = "http401" THEN "requires-auth" ELSE "failed"

\* C9 as stated: but for a reset to disconnected, a connection state changes
\* only from disconnected to connecting and from connecting to ready, failed
\* or requires-auth.
C9_TransitionOrder ==
    [][ \A s \in Servers :
          connectionState'[s] # connectionState[s] =>
            \/ connectionState'[s] = "disconnected"
            \/ /\ connectionState[s] = "disconnected"
               /\ connectionState'[s] = "connecting"
            \/ /\ connectionState[s] = "connecting"
               /\ connectionState'[s] \in {"ready", "failed", "requires-auth"} ]_vars

\* a tool as _formatToolsData is to give it
Formatted(tool) ==
    [ name |-> tool.name,
      description |-> tool.description,
      input_schema |-> IF tool.inputSchema # Undefined THEN tool.inputSchema
                       ELSE tool.input_schema ]

ToolsOf(server) == IF server = "storefront" THEN storefrontTools ELSE customerTools

\* C10: a server whose state is ready had a tools/list succeed since it last
\* became connecting, and its tool list is that listing, formatted.
C10_ReadyImpliesListed ==
    \A s \in Servers :
        connectionState[s] = "ready" =>
            /\ listed[s].ok
            /\ Len(ToolsOf(s)) = Len(listed[s].toolsData)
            /\ \A i \in 1..Len(listed[s].toolsData) :
                  ToolsOf(s)[i] = Formatted(listed[s].toolsData[i])

C10_Witness ==
    /\ connectionState["storefront"] = "ready"
    /\ connectionState["customer"] = "ready"
    /\ Len(storefrontTools) = 2
    /\ Len(customerTools) = 2

\* the connect operation of a server, and the other server
ConnectOf(server) ==
    IF server = "storefront" THEN "connectToStorefrontServer"
    ELSE "connectToCustomerServer"

OtherServer(server) == IF server = "storefront" THEN "customer" ELSE "storefront"

\* C11: a connect call of a server that succeeds replaces the server's list by
\* the new listing (formatted), leaves the other server's list as it was and
\* sets the merged list to the storefront list followed by the customer list;
\* a name the new listing lacks is in the merged list only as a tool of the
\* other server, and callTool no longer routes it to this server.
C11_MergedListRebuilt ==
    [][ \A s \in Servers :
          (ended'.call = ConnectOf(s) /\ ended'.set = "ready") =>
            /\ Len(ToolsOf(s)') = Len(listed'[s].toolsData)
            /\ \A i \in 1..Len(ToolsOf(s)') :
                  ToolsOf(s)'[i] = Formatted(listed'[s].toolsData[i])
            /\ ToolsOf(OtherServer(s))' = ToolsOf(OtherServer(s))
            /\ tools' = storefrontTools' \o customerTools'
            /\ \A i \in 1..Len(ToolsOf(s)) :
                  LET name == ToolsOf(s)[i].name
                  IN  ~HasTool(ToolsOf(s)', name) =>
                        /\ HasTool(tools', name) <=>
                              HasTool(ToolsOf(OtherServer(s)), name)
                        /\ routeOf(name, customerTools', storefrontTools') # s ]_vars

\* the customer server, connected again, lists nothing where it listed tools
\* before; the storefront's two tools are carried over
C11_Witness ==
    /\ ended.call = "connectToCustomerServer"
    /\ ended.set = "ready"
    /\ ended.dropped
    /\ customerTools = << >>
    /\ Len(storefrontTools) = 2
    /\ tools = storefrontTools

\* C12: disconnect(), from any state of the client, leaves both servers
\* disconnected, the merged list and both servers' lists empty and every list
\* of callbacks empty; a second disconnect() right after changes no field.
C12_DisconnectResets ==
    [][ ended'.call = "disconnect" =>
          /\ \A s \in Servers : connectionState'[s] = "disconnected"
          /\ tools' = << >>
          /\ customerTools' = << >>
          /\ storefrontTools' = << >>
          /\ \A event \in DOMAIN eventListeners' : eventListeners'[event] = << >>
          /\ ended.call = "disconnect" =>
                UNCHANGED << clientFields, eventListeners >> ]_vars

\* disconnect() on a client that held tools and registered callbacks
C12_Witness ==
    /\ ended.call = "disconnect"
    /\ ended.dropped
    /\ registered = 0
    /\ tools = << >>

\* every failed attempt failed at the transport level: timed out, or fetch
\* was rejected
TransportLevel(causes) ==
    \A i \in 1..Len(causes) : causes[i] \in {"timer", "rejected"}

\* C13: with retryAttempts = N, a request whose attempts 1..k-1 fail at the
\* transport level and whose attempt k <= N succeeds returns at attempt k; a
\* request whose first N attempts all fail throws the last error after
\* exactly N attempts; no attempt N+1 is ever made.
C13_RetryUpToN ==
    /\ request.attempt <= options.retryAttempts
    /\ (finished.kind = "return" /\ TransportLevel(finished.causes)) =>
          /\ finished.attempts = Len(finished.errors) + 1
          /\ finished.attempts <= options.retryAttempts
          /\ request.pc = "idle"
    /\ finished.kind = "throw" =>
          /\ finished.attempts = options.retryAttempts
          /\ Len(finished.errors) = options.retryAttempts
          /\ finished.error = << finished.errors[options.retryAttempts] >>
          /\ request.pc = "idle"
    /\ request.pc # "idle" => Len(request.errors) < options.retryAttempts

\* the third of three attempts succeeds after a timeout and a failed connection
C13_Witness ==
    /\ options.retryAttempts = 3
    /\ finished.kind = "return"
    /\ finished.attempts = 3
    /\ finished.causes = << "timer", "rejected" >>

\* C14 as stated: an attempt that receives an HTTP response with a non-2xx
\* status, or a JSON-RPC response with an error object, is the only attempt:
\* its error, with the status or the code, is thrown and no attempt follows.
C14_NoRetryOnHttpOrRpcError ==
    /\ \A i \in 1..Len(request.causes) :
          request.pc # "idle" => request.causes[i] \notin {"status", "rpc"}
    /\ \A i \in 1..Len(finished.causes) :
          finished.causes[i] \in {"status", "rpc"} =>
            /\ finished.attempts = 1
            /\ finished.kind = "throw"
            /\ finished.error = << finished.errors[1] >>
            /\ finished.causes[1] = "status" => finished.errors[1].status # 0
            /\ finished.causes[1] = "rpc" => finished.errors[1].code # 0

\* the waits a request makes up to and including the one after attempt n
Backoffs(n) == [ i \in 1..n |-> options.retryDelay * i ]

\* C15: the wait before attempt n+1 is retryDelay * n (1000 then 2000 with
\* the defaults); there is no wait before the first attempt and none after
\* the last failed attempt.
C15_LinearBackoff ==
    /\ request.pc \in {"fetch", "text", "json"} =>
          request.waits = Backoffs(request.attempt - 1)
    /\ request.pc = "backoff" => request.waits = Backoffs(request.attempt)
    /\ finished.kind # "none" => finished.waits = Backoffs(finished.attempts - 1)

\* three attempts fail with the default options
C15_Witness ==
    /\ options = DefaultOptions
    /\ finished.kind = "throw"
    /\ finished.waits = << 1000, 2000 >>

\* C16: an attempt whose timer fires before fetch answers fails with the
\* error "Request timeout after <timeout>ms", not with the abort error, and
\* the request goes on to the next attempt if one is left.
C16_TimeoutError ==
    /\ \A i \in 1..Len(request.causes) :
          request.causes[i] = "timer" =>
            request.errors[i] = timeoutError(options.timeout)
    /\ \A i \in 1..Len(finished.causes) :
          finished.causes[i] = "timer" =>
            /\ finished.errors[i] = timeoutError(options.timeout)
            /\ finished.errors[i].name # "AbortError"
            /\ i < options.retryAttempts => finished.attempts > i

\* the first attempt timed out, the second succeeded
C16_Witness ==
    /\ finished.kind = "return"
    /\ finished.causes = << "timer" >>
    /\ finished.errors = << timeoutError(30000) >>

\* the calls of the batch whose entry is due: those before the call at
\* hand, or the whole batch once the loop is left
Handled ==
    IF chat.pc \in {"callTool", "handle"} THEN chat.k - 1 ELSE Len(chat.batch)

\* C17: of the calls [c1..cn] of a tool_calls event at most one is in flight
\* at a time, and the entries appended to the history (after the user's
\* message) are those of c1..cn, in this order, whatever callTool answers.
C17_SequentialToolCalls ==
    /\ seen.inFlight <= 1
    /\ seen.inFlight = 1 <=> chat.pc = "callTool"
    /\ conversationHistory # << >> =>
          /\ Len(conversationHistory) = 1 + Handled
          /\ \A i \in 1..Handled :
                /\ conversationHistory[i + 1].toolName = chat.batch[i].function.name
                /\ conversationHistory[i + 1].arguments =
                      injectDefaults(chat.batch[i].function.name,
                                     parse(chat.batch[i].function.arguments))

\* two calls, get_cart after search_shop_catalog, the first answered with an
\* error: both entries are in the history, in this order
C17_Witness ==
    /\ Len(chat.batch) = 2
    /\ Len(conversationHistory) = 3
    /\ conversationHistory[2].toolName = "search_shop_catalog"
    /\ conversationHistory[2].result = "error"
    /\ conversationHistory[3].toolName = "get_cart"
    /\ conversationHistory[3].result = "success"

IsPrefix(s, t) == Len(s) <= Len(t) /\ s = SubSeq(t, 1, Len(s))

\* C18 as stated: the steps taken for a call are, in this order, the
\* tool_use message, the default arguments, callTool, the entry appended to
\* the history, new_message; the tool_use message, sent before the defaults
\* are set, shows the arguments as the model gave them.
C18_StepOrder ==
    /\ IsPrefix(seen.steps,
                << "tool_use", "inject", "callTool", "append", "new_message" >>)
    /\ chat.pc = "callTool" =>
          seen.notified = parse(callAt(chat.batch, chat.k).function.arguments)

\* C19: after the calls of a non-empty batch the model is asked again
\* exactly once, with the history holding the entry of every call of the
\* batch; a tool_calls event of the continuation runs no tool and starts no
\* further continuation.
C19_OneContinuation ==
    /\ seen.continuations = seen.batches
    /\ seen.continuations <= 1
    /\ chat.turn = "continuation" =>
          /\ seen.inFlight = 0
          /\ chat.pc \in {"pull", "saveAssistant"}
    /\ generator["continuation"].pc # "none" =>
          /\ seen.continuations = 1
          /\ Len(chat.batch) > 0
          /\ Len(conversationHistory) = 1 + Len(chat.batch)
    /\ generator["continuation"].pc \notin {"none", "created", "returned"} =>
          generator["continuation"].messages = conversationHistory

\* the continuation yielded tool_calls, and its next event is awaited
C19_Witness ==
    /\ chat.turn = "continuation"
    /\ chat.pc = "pull"
    /\ yielded = NoEvent
    /\ generator["continuation"].pc = "done"
    /\ generator["continuation"].toolCalls # << >>
    /\ Len(chat.batch) = 2

\* the assistant messages stored
AssistantMessages == SelectSeq(saved, LAMBDA m : m.role = "assistant")

\* C20 as stated: a request whose model turn gave content events (with some
\* text) and done only, and whose saveMessage calls succeeded, ends with
\* exactly one assistant message stored, its content the texts of the
\* content events joined in order, with each of the three backends.
C20_ContentTurnSaved ==
    ( /\ chat.pc = "ended"
      /\ seen.kinds = {"content", "done"}
      /\ seen.forwarded # << >>
      /\ ~seen.failed )
    => AssistantMessages = << [role |-> "assistant", content |-> seen.forwarded] >>

\* C21 as stated: an assistant message is saved only on the done event of
\* the turn that ends the request (the continuation, when one was started)
\* and only with a non-empty final text; the turn whose text is saved has
\* yielded done, so none of its content events is still to come; and the
\* user message is stored before the first turn's generator is made.
C21_SaveOnlyOnFinalDone ==
    /\ chat.pc = "saveAssistant"
         => /\ chat.final # << >>
            /\ generator[chat.turn].pc = "finished"
            /\ seen.continuations > 0 => chat.turn = "continuation"
    /\ generator["initial"].pc # "none"
         => Len(saved) >= 1 /\ saved[1] = UserMessage

\* C22 as stated: once an error event of the first turn or of the
\* continuation was sent on, the request forwards no further content, starts
\* no tool call and stores no assistant message.
C22_ErrorHalts ==
    [][ seen.error
          => /\ seen'.forwarded = seen.forwarded
             /\ seen'.inFlight = seen.inFlight
             /\ chat'.pc # "saveAssistant"
             /\ saved' = saved ]_vars

\* C23 as stated: the arguments handed to callTool are the parsed arguments
\* with context set to the default when the tool is search_shop_catalog and
\* the parsed arguments have no context; for every other tool, and whenever
\* the parsed arguments have a context, they are the parsed arguments.
C23_DefaultContext ==
    chat.pc = "callTool"
      => LET parsed == parse(chat.batch[chat.k].function.arguments)
         IN  IF chat.toolName = "search_shop_catalog" /\ parsed.context = Absent
             THEN chat.arguments = [parsed EXCEPT !.context = DefaultContext]
             ELSE chat.arguments = parsed

\* the texts of the content events among the events of a stream
ContentTexts(events) ==
    LET contents == SelectSeq(events, LAMBDA e : e.type = "content")
    IN  [ i \in 1..Len(contents) |-> contents[i].text ]

\* C24 as stated: with Gemini and with Cloudflare, while the backend's
\* stream is read the content events yielded are the non-empty deltas
\* received, one event per delta and in their order; and the done event
\* carries a text, the texts of the content events of the stream joined.
C24_DoneCarriesStreamedText ==
    provider \in {"gemini", "cloudflare"}
      => /\ \A turn \in {"initial", "continuation"} :
              generator[turn].pc = "iterate"
                => generator[turn].events =
                     [ i \in 1..Len(generator[turn].fullResponse) |->
                         [type |-> "content",
                          text |-> << generator[turn].fullResponse[i] >>] ]
         /\ yielded.type = "done"
              => /\ yielded.hasContent
                 /\ yielded.content = Concat(ContentTexts(current.events))

\* the types of the events of a stream, in order
TypesOf(events) == [ i \in 1..Len(events) |-> events[i].type ]

\* the whole text of a Claude message of which g got the deltas
WholeText(g) == [ j \in 1..g.chunks |-> Letters[j] ]

\* Claude yields nothing before finalMessage() answered, and a content event
\* is the only one of its stream and carries the whole text
ClaudeBuffers(g) ==
    /\ g.pc \in {"created", "connect", "final"} => g.events = << >>
    /\ \A i \in 1..Len(g.events) :
         g.events[i].type = "content"
           => /\ g.events[i].text = WholeText(g)
              /\ \A j \in 1..Len(g.events) : g.events[j].type = "content" => j = i

\* C25 as stated: Claude's stream yields nothing until the final message is
\* there, then the whole text as one content event, and the event after the
\* content event is done.
C25_Original ==
    provider = "claude"
      => \A turn \in {"initial", "continuation"} :
           LET g == generator[turn]
           IN  /\ ClaudeBuffers(g)
               /\ \A i \in 1..(Len(g.events) - 1) :
                    g.events[i].type = "content" => g.events[i + 1].type = "done"

\* the event sequences of a Claude stream that ran to its end
ClaudeSequences ==
    { << "content", "done" >>, << "content", "tool_calls", "done" >>,
      << "tool_calls", "done" >>, << "done" >>, << "error" >> }

\* C25, amended: Claude's stream yields nothing until the final message is
\* there; a non-empty text is then yielded whole as one content event, never
\* split; after it comes done, with one tool_calls event between the two when
\* the message asks for tools.
C25_SingleContentEvent ==
    provider = "claude"
      => \A turn \in {"initial", "continuation"} :
           LET g == generator[turn]
           IN  /\ ClaudeBuffers(g)
               /\ \E whole \in ClaudeSequences : IsPrefix(TypesOf(g.events), whole)
               /\ \A i \in 1..Len(g.events) :
                    g.events[i].type = "content" => g.events[i].text # << >>

\* a Claude stream gave a text of two deltas as one content event, then the
\* tool calls, then done
C25_Witness ==
    /\ provider = "claude"
    /\ generator["initial"].chunks = 2
    /\ generator["initial"].events =
         << [type |-> "content", text |-> << "a", "b" >>],
            [type |-> "tool_calls", text |-> << >>],
            [type |-> "done", text |-> << >>] >>

\* C26 as stated: when iterating Gemini's stream failed, the text field of
\* the response is yielded as content; and when that field is absent, the
\* stream gives an error event and no done event.
C26_FallbackOrError ==
    \A turn \in {"initial", "continuation"} :
      LET g == generator[turn]
      IN  /\ g.fallback = "text"
               => \E i \in 1..Len(g.events) :
                     g.events[i] = [type |-> "content", text |-> g.fullResponse]
          /\ g.fallback = "absent"
               => /\ \A i \in 1..Len(g.events) : g.events[i].type # "done"
                  /\ g.pc = "finished" => g.events[Len(g.events)].type = "error"

\* the keywords under which a schema holds schemas
Composition == {"anyOf", "oneOf", "allOf"}

RECURSIVE SubSchemas(_)
\* the schemas reachable from a schema through properties, items (one
\* schema, or the schemas of an array) and the branches of a composition,
\* the schema itself among them
SubSchemas(json) ==
    IF json.kind = "array"
    THEN UNION { SubSchemas(json.elems[i]) : i \in 1..Len(json.elems) }
    ELSE IF json.kind # "object" THEN {}
    ELSE {json}
           \cup UNION { LET value == json.fields[k]
                        IN  IF k = "properties" /\ value.kind = "object"
                            THEN UNION { SubSchemas(value.fields[p]) :
                                           p \in DOMAIN value.fields }
                            ELSE IF k = "items" \/ k \in Composition
                            THEN SubSchemas(value)
                            ELSE {} :
                        k \in DOMAIN json.fields }

\* the keys under which a schema holds schemas, not plain values
Structural == {"properties", "items"} \cup Composition

RECURSIVE Retains(_, _)
\* every supported keyword of `original` is in `result`: a plain value
\* unchanged, the schemas under a structural keyword retained in turn
Retains(original, result) ==
    IF original.kind = "array"
    THEN /\ result.kind = "array"
         /\ Len(result.elems) = Len(original.elems)
         /\ \A i \in 1..Len(original.elems) :
              Retains(original.elems[i], result.elems[i])
    ELSE IF original.kind # "object" THEN result = original
    ELSE /\ result.kind = "object"
         /\ \A k \in DOMAIN original.fields \cap supportedProps :
              /\ k \in DOMAIN result.fields
              /\ IF k = "properties" /\ original.fields[k].kind = "object"
                 THEN /\ result.fields[k].kind = "object"
                      /\ DOMAIN result.fields[k].fields = DOMAIN original.fields[k].fields
                      /\ \A p \in DOMAIN original.fields[k].fields :
                           Retains(original.fields[k].fields[p],
                                   result.fields[k].fields[p])
                 ELSE IF k \in Structural
                 THEN Retains(original.fields[k], result.fields[k])
                 ELSE result.fields[k] = original.fields[k]

\* C27 as stated: what cleanSchemaForGemini returns for a schema has every
\* supported keyword of the schema, values unchanged and sub-schemas
\* filtered in turn, and has no keyword outside the supported list at any
\* depth reachable through properties, items or composition branches.
C27_SchemaFiltered ==
    cleaned # NoJson
      => /\ Retains(schema, cleaned)
         /\ \A sub \in SubSchemas(cleaned) : DOMAIN sub.fields \subseteq supportedProps

\* C28: the step in which a connect of one server ends in failure sets that
\* server's state to failed and changes no other field of the client: the
\* other server's state and list are as before, and each of the other
\* server's tools is still in the merged list and still routed by callTool.
C28_FailureIsLocal ==
    [][ \A s \in Servers :
          (ended'.call = ConnectOf(s) /\ ended'.set = "failed") =>
            LET other == OtherServer(s)
            IN  /\ connectionState'[s] = "failed"
                /\ connectionState'[other] = connectionState[other]
                /\ ToolsOf(other)' = ToolsOf(other)
                /\ ToolsOf(s)' = ToolsOf(s)
                /\ tools' = tools
                /\ \A i \in 1..Len(ToolsOf(other)) :
                     LET name == ToolsOf(other)[i].name
                     IN  /\ HasTool(tools', name)
                         /\ routeOf(name, customerTools', storefrontTools') # "none" ]_vars

\* the customer connect failed while the storefront was ready with two tools
C28_Witness ==
    /\ ended.call = "connectToCustomerServer"
    /\ ended.set = "failed"
    /\ connectionState = [storefront |-> "ready", customer |-> "failed"]
    /\ Len(storefrontTools) = 2
    /\ tools = storefrontTools \o customerTools

\* C29 as stated: in every state the merged list has at most one tool of a
\* name, also when both servers list a tool of the same name.
C29_OneEntryPerName ==
    \A i, j \in 1..Len(tools) : tools[i].name = tools[j].name => i = j

\* C30 as stated: when testProvider calls that overlapped have all returned,
\* whether each succeeded or failed, process.env.AI_PROVIDER holds the value
\* it had before the first of them started.
C30_FlagRestored ==
    ( /\ tests.overlapped
      /\ \A id \in 1..MaxTests : tests.calls[id].pc = "returned" )
    => env = tests.before

\* C31: McpChatInterface.callTool chooses the server EnhancedMCPClient.callTool
\* chooses for the same two tool lists and the same tool name; a name both
\* servers list goes to the customer server.
C31_SameRouting ==
    uiCall.pc # "idle" =>
        uiCall.route = routeOf(uiCall.toolName, uiCall.customerMcp.tools,
                               uiCall.storefrontMcp.tools)

\* getConnectionStatus(): the three tool counts
getConnectionStatus ==
    [totalTools |-> Len(tools), storefrontTools |-> Len(storefrontTools),
     customerTools |-> Len(customerTools)]

\* C32: in every state of the client, whatever the interleaving of the
\* connect operations and disconnect, the merged list is the storefront list
\* followed by the customer list, and getConnectionStatus reports
\* totalTools = storefrontTools + customerTools.
C32_MergedIsStorefrontThenCustomer ==
    /\ tools = storefrontTools \o customerTools
    /\ getConnectionStatus.totalTools =
          getConnectionStatus.storefrontTools + getConnectionStatus.customerTools

\* the storefront connect completes after the customer connect did, both
\* with tools
C32_Witness ==
    /\ ended.call = "connectToStorefrontServer"
    /\ ended.set = "ready"
    /\ connectionState.customer = "ready"
    /\ storefrontTools # << >>
    /\ customerTools # << >>
    /\ tools = storefrontTools \o customerTools

\* both endpoints disconnected and every tool list empty
Quiet ==
    /\ \A s \in Servers : connectionState[s] = "disconnected"
    /\ tools = << >>
    /\ storefrontTools = << >>
    /\ customerTools = << >>

\* C33: once disconnect() has returned, both endpoint states stay
\* disconnected and all tool lists stay empty as long as no connect operation
\* is started, also when a connect was in flight when disconnect() was called.
C33_DisconnectHolds ==
    [][ ( /\ ended.call = "disconnect"
          /\ storefrontInFlight' <= storefrontInFlight
          /\ customerInFlight' <= customerInFlight )
        => Quiet' ]_vars

\* C34: over one chat request at most one assistant message is stored, and
\* when a continuation ran the message stored is the final text of the
\* continuation.
C34_OneAssistantMessage ==
    [][ /\ Len(AssistantMessages') <= 1
        /\ (saved' # saved /\ seen.continuations > 0)
             => /\ generator["continuation"].pc = "finished"
                /\ saved'[Len(saved')].content = generator["continuation"].fullResponse
      ]_vars

\* the session is over: handleChatSession returned or threw
SessionOver == chat.pc \in {"ended", "thrown"}

Terminal(e) == e.type \in {"done", "error"}

\* C36: the sequence of events a streamResponse generator of any of the
\* three backends yields is bounded by the chunks it received, ends with
\* one terminal event (done or error, never both) with no event after it,
\* and holds at most one tool_calls event, which comes after every content
\* event and before done.
C36_StreamSequences ==
    \A turn \in {"initial", "continuation"} :
        LET g == generator[turn]
            n == Len(g.events)
        IN  /\ n <= g.chunks + 3
            /\ \A i \in 1..n : Terminal(g.events[i]) => i = n
            /\ g.pc = "finished" => n >= 1 /\ Terminal(g.events[n])
            /\ Cardinality({ i \in 1..n : g.events[i].type = "tool_calls" }) <= 1
            /\ \A i, j \in 1..n :
                   g.events[i].type = "tool_calls"
                     => /\ g.events[j].type = "content" => j < i
                        /\ g.events[j].type = "done" => i < j

\* a Gemini turn that streamed two chunks and a function call has ended
C36_Witness ==
    /\ provider = "gemini"
    /\ generator["initial"].pc = "finished"
    /\ TypesOf(generator["initial"].events) =
          << "content", "content", "tool_calls", "done" >>

\* the names of the events of a sequence of emitted events
EventsOf(notices) == [ i \in 1..Len(notices) |-> notices[i].event ]

\* the tool list of a server as an emitted event's callbacks can read it
SeenToolsOf(e, server) ==
    IF server = "storefront" THEN e.storefrontTools ELSE e.customerTools

\* C37: a connect that succeeds emits connection-state-change for ready with
\* the server's list and the merged list already updated, and tools-updated
\* after it; a connect that fails emits connection-state-change for failed,
\* then error, and no tools-updated.  So whenever callbacks are called with
\* a server ready, the merged list holds that server's tools.
C37_EmitOrder ==
    /\ (ended.call \in {"connectToStorefrontServer", "connectToCustomerServer"}
          /\ ended.set = "ready")
         => /\ EventsOf(emitted) = << "connection-state-change", "tools-updated" >>
            /\ emitted[1].server = ServerOf(ended.call)
            /\ emitted[1].state = "ready"
            /\ SeenToolsOf(emitted[1], ServerOf(ended.call)) = ended.value
            /\ emitted[1].tools = tools
    /\ (ended.call \in {"connectToStorefrontServer", "connectToCustomerServer"}
          /\ ended.set = "failed")
         => /\ EventsOf(emitted) = << "connection-state-change", "error" >>
            /\ emitted[1].server = ServerOf(ended.call)
            /\ emitted[1].state = "failed"
    /\ \A i \in 1..Len(emitted), server \in Servers :
          emitted[i].currentState[server] = "ready"
            => \A k \in 1..Len(SeenToolsOf(emitted[i], server)) :
                  \E j \in 1..Len(emitted[i].tools) :
                     emitted[i].tools[j] = SeenToolsOf(emitted[i], server)[k]

\* the customer connect succeeds with tools while the storefront is ready
\* with tools
C37_Witness ==
    /\ ended.call = "connectToCustomerServer"
    /\ ended.set = "ready"
    /\ ended.value # << >>
    /\ Len(emitted) = 2
    /\ emitted[1].state = "ready"
    /\ emitted[1].currentState["storefront"] = "ready"
    /\ emitted[1].storefrontTools # << >>
    /\ emitted[1].tools = emitted[1].storefrontTools \o ended.value

\* the callbacks registered for an event
ListenersOf(event) ==
    IF event \in DOMAIN eventListeners THEN eventListeners[event] ELSE << >>

\* C38: a callback that throws while an event is emitted does not make emit
\* throw, does not keep the callbacks registered after it from being called,
\* and leaves the connection state as the operation set it.
C38_ThrowingListenerContained ==
    [][ \A i \in 1..Len(emitted') :
           /\ ~emitted'[i].thrown
           /\ emitted'[i].called = ListenersOf(emitted'[i].event)
           /\ emitted'[i].event = "connection-state-change"
                => /\ emitted'[i].currentState[emitted'[i].server] = emitted'[i].state
                   /\ connectionState'[emitted'[i].server] = emitted'[i].state
      ]_vars

\* the storefront connect became ready with a throwing callback registered
\* before another for connection-state-change: both were called
C38_Witness ==
    /\ ended.call = "connectToStorefrontServer"
    /\ ended.set = "ready"
    /\ Len(emitted) = 2
    /\ emitted[1].event = "connection-state-change"
    /\ emitted[1].called = << "g", "f" >>
    /\ "g" \in Throwing
    /\ connectionState["storefront"] = "ready"

\* C39: an initDB call that returned true was preceded by a setupSchema that
\* succeeded, and the module is marked initialized only after a setupSchema
\* that succeeded, whatever the overlap of the calls and the outcome of
\* setupSchema.
C39_TrueOnlyAfterSetup ==
    /\ \A id \in 1..MaxInits :
          (inits.calls[id].pc = "returned" /\ inits.calls[id].result)
            => inits.setupOk
    /\ isInitialized => inits.setupOk

====
